---------------------------- MODULE Spec2Model ----------------------------
(***************************************************************************)
(* textsGPT: extraction of an iMessage conversation from chat.db, identity *)
(* resolution, and the incremental load / merge protocol of Chat.          *)
(*                                                                         *)
(* Strings are sequences of one-character strings, so that cleaning,       *)
(* SQL LIKE matching and the CSV round trip are computed, not assumed.     *)
(* Integers of the store (ROWID, date, associated_message_type) stand for  *)
(* their decimal text; str() of an integer is injective.                   *)
(***************************************************************************)
EXTENDS Integers, Sequences, FiniteSets, TLC

VARIABLES
    \* ---- Contact construction (contact.py) ----
    c_args,             \* the arguments of Contact(name, addresses)
    c_res,              \* the constructed Contact, or the error raised
    \* ---- the message store chat.db ----
    handle,             \* relation handle(ROWID, id), in scan order
    chat,               \* relation chat(ROWID, display_name, chat_identifier)
    message,            \* relation message(ROWID, handle_id, is_from_me, text, date, associated_message_type)
    chat_message_join,  \* relation chat_message_join(chat_id, message_id)
    \* ---- configuration ----
    CHATS,              \* my_chats.CHATS: the configured conversation descriptor
    \* ---- one extractor call (GroupChat / IndividualChat) ----
    call,               \* the last library call made and its arguments
    ret,                \* what that call returned or raised
    unknown_addresses,  \* GroupChat.unknown_addresses
    \* ---- the Chat object and its persisted state ----
    pc,                 \* position of the process: idle, loaded, saved, failed
    messages,           \* Chat.messages
    csv,                \* the file data/<name>/messages.csv
    hist,               \* history of the runs (ghost)
    \* ---- the process of a run and what it leaves outside itself ----
    proc,               \* the Python process: platform, hash seed, the Chat under construction
    conn,               \* the sqlite3 connections the process has opened
    disk,               \* the directories under data/ and the files in them
    gpt                 \* one call of gpt_completion and the requests it made

vars == <<c_args, c_res, handle, chat, message, chat_message_join, CHATS,
          call, ret, unknown_addresses, pc, messages, csv, hist,
          proc, conn, disk, gpt>>

contactVars == <<c_args, c_res>>
storeVars   == <<handle, chat, message, chat_message_join>>
callVars    == <<call, ret, unknown_addresses>>
chatVars    == <<pc, messages, csv, hist>>
procVars    == <<proc, conn, disk, gpt>>

(***************************************************************************)
(* Characters and strings                                                  *)
(***************************************************************************)
Digits == {"0", "1", "2", "3", "4", "5", "6", "7", "8", "9"}

UpperCase == <<"A","B","C","D","E","F","G","H","I","J","K","L","M",
               "N","O","P","Q","R","S","T","U","V","W","X","Y","Z">>
LowerCase == <<"a","b","c","d","e","f","g","h","i","j","k","l","m",
               "n","o","p","q","r","s","t","u","v","w","x","y","z">>

\* str.isdigit() on one character
IsDigit(c) == c \in Digits

\* ASCII case folding, as SQLite's LIKE does
LowerOf == [c \in {UpperCase[i] : i \in 1..26} |->
               LowerCase[CHOOSE i \in 1..26 : UpperCase[i] = c]]
Lower(c) == IF c \in DOMAIN LowerOf THEN LowerOf[c] ELSE c

RECURSIVE Concat(_)
Concat(ss) == IF ss = <<>> THEN <<>> ELSE Head(ss) \o Concat(Tail(ss))

\* "needle in haystack" of Python
Contains(haystack, needle) ==
    \E i \in 0..(Len(haystack) - Len(needle)) :
        SubSeq(haystack, i + 1, i + Len(needle)) = needle

(***************************************************************************)
(* Contact (contact.py)                                                    *)
(***************************************************************************)
MinPhoneDigits == 10
MaxPhoneDigits == 15

Raise(e)  == [ok |-> FALSE, error |-> e, value |-> <<>>]
Return(v) == [ok |-> TRUE, error |-> "", value |-> v]

\* "".join(c for c in phone_number if c.isdigit())
CleanedDigits(phone_number) == SelectSeq(phone_number, IsDigit)

clean_and_verify_phone_number_short(phone_number) ==
    LET cleaned_phone_number == CleanedDigits(phone_number)
    IN  IF Len(cleaned_phone_number) <= MinPhoneDigits THEN Raise("ValueError")
        ELSE IF Len(cleaned_phone_number) > MaxPhoneDigits THEN Raise("ValueError")
        ELSE Return(cleaned_phone_number)

clean_and_verify_phone_number(phone_number) ==
    LET cleaned_phone_number == CleanedDigits(phone_number)
    IN  IF Len(cleaned_phone_number) < MinPhoneDigits THEN Raise("ValueError")
        ELSE IF Len(cleaned_phone_number) > MaxPhoneDigits THEN Raise("ValueError")
        ELSE Return(cleaned_phone_number)

\* the loop of clean_and_verify_addresses: the first bad phone number raises
RECURSIVE clean_and_verify_addresses(_)
clean_and_verify_addresses(addresses) ==
    IF addresses = <<>> THEN Return(<<>>)
    ELSE LET address == Head(addresses)
             first == IF Contains(address, <<"@">>)
                      THEN Return(address)
                      ELSE clean_and_verify_phone_number(address)
         IN  IF ~first.ok THEN first
             ELSE LET rest == clean_and_verify_addresses(Tail(addresses))
                  IN  IF ~rest.ok THEN rest
                      ELSE Return(<<first.value>> \o rest.value)

\* Contact.__init__
ContactInit(name, addresses) ==
    IF addresses = <<>> THEN Raise("ValueError")
    ELSE LET verified == clean_and_verify_addresses(addresses)
         IN  IF ~verified.ok THEN verified
             ELSE Return([name |-> name, addresses |-> verified.value])


(***************************************************************************)
(* SQLite, as the queries of the extractors use it                         *)
(***************************************************************************)
\* SQL NULL in the text column
NULL == <<"<NULL>">>

\* X LIKE pattern: "%" matches any run of characters, "_" any one character,
\* every other character itself, ASCII letters without regard to case
RECURSIVE Like(_, _)
Like(pattern, s) ==
    IF pattern = <<>> THEN s = <<>>
    ELSE IF Head(pattern) = "%"
         THEN Like(Tail(pattern), s) \/ (s /= <<>> /\ Like(pattern, Tail(s)))
    ELSE IF s = <<>> THEN FALSE
    ELSE IF Head(pattern) = "_" THEN Like(Tail(pattern), Tail(s))
    ELSE Lower(Head(pattern)) = Lower(Head(s)) /\ Like(Tail(pattern), Tail(s))

\* [row[0] for row in fetchall()] of a SELECT ROWID: the ROWIDs, in scan order
RowIdsOf(rows) == [i \in DOMAIN rows |-> rows[i].ROWID]

\* ORDER BY date: rows with equal dates keep their scan order
RECURSIVE InsertByDate(_, _)
InsertByDate(sorted, r) ==
    IF sorted = <<>> THEN <<r>>
    ELSE IF r.date < Head(sorted).date THEN <<r>> \o sorted
    ELSE <<Head(sorted)>> \o InsertByDate(Tail(sorted), r)

\* the rows as the scan found them
OrderByDate_scan(rows) == rows

RECURSIVE OrderByDate(_)
OrderByDate(rows) ==
    IF rows = <<>> THEN <<>>
    ELSE InsertByDate(OrderByDate(SubSeq(rows, 1, Len(rows) - 1)), rows[Len(rows)])

InSeq(x, seq) == \E i \in DOMAIN seq : seq[i] = x

(***************************************************************************)
(* Contact.get_contact_ids (contact.py)                                    *)
(***************************************************************************)
\* SELECT ROWID FROM handle WHERE id like "%{address}%"
HandleRowsLike(address) ==
    LET Match(r) == Like(<<"%">> \o address \o <<"%">>, r.id)
    IN  RowIdsOf(SelectSeq(handle, Match))

RECURSIVE ContactIdsLoop(_)
ContactIdsLoop(addresses) ==
    IF addresses = <<>> THEN Return(<<>>)
    ELSE LET contact_ids_for_address == HandleRowsLike(Head(addresses))
         IN  IF Len(contact_ids_for_address) = 0 THEN Raise("ValueError")
             ELSE LET rest == ContactIdsLoop(Tail(addresses))
                  IN  IF ~rest.ok THEN rest
                      ELSE Return(contact_ids_for_address \o rest.value)

get_contact_ids(contact) == ContactIdsLoop(contact.addresses)

(***************************************************************************)
(* get_chat_ids (group_chat.py, individual_chat.py)                        *)
(***************************************************************************)
\* SELECT ROWID FROM chat WHERE display_name="{self.name}"
ChatRowsNamed(name) ==
    LET Match(r) == r.display_name = name
    IN  RowIdsOf(SelectSeq(chat, Match))

GroupChat_get_chat_ids_noraise(gc) == Return(ChatRowsNamed(gc.name))

GroupChat_get_chat_ids(gc) ==
    LET chat_ids == ChatRowsNamed(gc.name)
    IN  IF Len(chat_ids) = 0 THEN Raise("ValueError") ELSE Return(chat_ids)

\* SELECT ROWID FROM chat WHERE chat_identifier like "%{address}%"
ChatRowsLike(address) ==
    LET Match(r) == Like(<<"%">> \o address \o <<"%">>, r.chat_identifier)
    IN  RowIdsOf(SelectSeq(chat, Match))

\* a loop that skips an address without a chat and fails only when none is found
RECURSIVE ChatIdsLoopLenient(_)
ChatIdsLoopLenient(addresses) ==
    IF addresses = <<>> THEN <<>>
    ELSE ChatRowsLike(Head(addresses)) \o ChatIdsLoopLenient(Tail(addresses))

RECURSIVE ChatIdsLoop(_)
ChatIdsLoop(addresses) ==
    IF addresses = <<>> THEN Return(<<>>)
    ELSE LET chat_ids_for_address == ChatRowsLike(Head(addresses))
         IN  IF Len(chat_ids_for_address) = 0 THEN Raise("ValueError")
             ELSE LET rest == ChatIdsLoop(Tail(addresses))
                  IN  IF ~rest.ok THEN rest
                      ELSE Return(chat_ids_for_address \o rest.value)

IndividualChat_get_chat_ids_lenient(ic) ==
    LET ids == ChatIdsLoopLenient(ic.other_person.addresses)
    IN  IF ids = <<>> THEN Raise("ValueError") ELSE Return(ids)

IndividualChat_get_chat_ids(ic) == ChatIdsLoop(ic.other_person.addresses)

(***************************************************************************)
(* get_message_df (group_chat.py, individual_chat.py)                      *)
(*                                                                         *)
(* The integer columns of message (handle_id, is_from_me, date,            *)
(* associated_message_type) are NOT NULL with defaults in chat.db; only    *)
(* text is NULL in the stores modelled here.                               *)
(***************************************************************************)
\* FROM message T1 INNER JOIN chat_message_join T2
\*     ON T2.chat_id IN (chat_ids) AND T1.ROWID = T2.message_id
\* one result row per matching pair, message rows in scan order
RECURSIVE JoinRows(_, _)
JoinRows(rows, chat_ids) ==
    IF rows = <<>> THEN <<>>
    ELSE LET T1 == Head(rows)
             Matches(T2) == InSeq(T2.chat_id, chat_ids) /\ T1.ROWID = T2.message_id
             n == Len(SelectSeq(chat_message_join, Matches))
         IN  [i \in 1..n |-> T1] \o JoinRows(Tail(rows), chat_ids)

\* since is "" (no filter) or the decimal text of a number, held as <<number>>
WhereSince_inclusive(rows, since) ==
    IF since /= <<>>
    THEN LET Newer(r) == r.date >= since[1] IN SelectSeq(rows, Newer)
    ELSE rows

\* since_filter = f"WHERE date > {since}" if since else ""
WhereSince(rows, since) ==
    IF since /= <<>>
    THEN LET Newer(r) == r.date > since[1] IN SelectSeq(rows, Newer)
    ELSE rows

\* chat_db.execute(query); chat_db.fetchall()
MessageQuery(chat_ids, since) ==
    OrderByDate(WhereSince(JoinRows(message, chat_ids), since))

\* df.dropna(): a row with a missing value is dropped
NotNa(r) == r.text /= NULL

\* SELECT handle_id, text, date, associated_message_type; the frame's columns,
\* df.dropna(), df.reset_index(drop=True): index is the row label of the frame
GroupChat_get_message_df(chat_ids, since) ==
    LET Row(r, i) == [index |-> i - 1, sender |-> r.handle_id, text |-> r.text,
                      time |-> r.date, type |-> r.associated_message_type]
        kept == SelectSeq(MessageQuery(chat_ids, since), NotNa)
    IN  [i \in DOMAIN kept |-> Row(kept[i], i)]

\* SELECT is_from_me, text, date, associated_message_type
IndividualChat_get_message_df(chat_ids, since) ==
    LET Row(r, i) == [index |-> i - 1, is_from_me |-> r.is_from_me, text |-> r.text,
                      time |-> r.date, type |-> r.associated_message_type]
        kept == SelectSeq(MessageQuery(chat_ids, since), NotNa)
    IN  [i \in DOMAIN kept |-> Row(kept[i], i)]

(***************************************************************************)
(* GroupChat.load_messages (group_chat.py)                                 *)
(***************************************************************************)
\* a dict, as the sequence of its (key, value) items in insertion order
DictHas(d, k) == \E i \in DOMAIN d : d[i][1] = k
DictGet(d, k) == d[CHOOSE i \in DOMAIN d : d[i][1] = k][2]
\* a map in which the first participant to claim an identifier keeps it
DictSetFirstWins(d, k, v) == IF DictHas(d, k) THEN d ELSE Append(d, <<k, v>>)

DictSet(d, k, v) ==
    IF DictHas(d, k)
    THEN [i \in DOMAIN d |-> IF d[i][1] = k THEN <<k, v>> ELSE d[i]]
    ELSE Append(d, <<k, v>>)
DictValues(d) == [i \in DOMAIN d |-> d[i][2]]

RECURSIVE MapIds(_, _, _)
MapIds(contact_id_map, contact_ids, name) ==
    IF contact_ids = <<>> THEN contact_id_map
    ELSE MapIds(DictSet(contact_id_map, Head(contact_ids), name),
                Tail(contact_ids), name)

\* a loop that visits the participants last to first
RECURSIVE MembersLoop_reversed(_, _)
MembersLoop_reversed(members, contact_id_map) ==
    IF members = <<>> THEN Return(contact_id_map)
    ELSE LET rest == MembersLoop_reversed(Tail(members), contact_id_map)
             contact_ids == get_contact_ids(Head(members))
         IN  IF ~rest.ok THEN rest
             ELSE IF ~contact_ids.ok THEN contact_ids
             ELSE Return(MapIds(rest.value, contact_ids.value, Head(members).name))

\* for member in self.members: ... contact_id_map[contact_id] = member.name
RECURSIVE MembersLoop(_, _)
MembersLoop(members, contact_id_map) ==
    IF members = <<>> THEN Return(contact_id_map)
    ELSE LET contact_ids == get_contact_ids(Head(members))
         IN  IF ~contact_ids.ok THEN contact_ids
             ELSE MembersLoop(Tail(members),
                      MapIds(contact_id_map, contact_ids.value, Head(members).name))

\* a lookup that queries the handle relation whatever the cache holds
get_address_uncached(contact_id, cache) ==
    LET HasId(r) == r.ROWID = contact_id
        found == SelectSeq(handle, HasId)
    IN  IF found = <<>>
        THEN [ok |-> FALSE, error |-> "TypeError", value |-> <<>>,
              cache |-> cache, queried |-> TRUE]
        ELSE [ok |-> TRUE, error |-> "", value |-> found[1].id,
              cache |-> DictSet(cache, contact_id, found[1].id),
              queried |-> TRUE]

\* SELECT id FROM handle WHERE ROWID={contact_id}; fetchone()[0]
\* fetchone() is None when no row has the ROWID, and None[0] raises TypeError
get_address_for_contact_id(contact_id, cache) ==
    IF DictHas(cache, contact_id)
    THEN [ok |-> TRUE, error |-> "", value |-> DictGet(cache, contact_id),
          cache |-> cache, queried |-> FALSE]
    ELSE LET HasId(r) == r.ROWID = contact_id
             found == SelectSeq(handle, HasId)
         IN  IF found = <<>>
             THEN [ok |-> FALSE, error |-> "TypeError", value |-> <<>>,
                   cache |-> cache, queried |-> TRUE]
             ELSE [ok |-> TRUE, error |-> "", value |-> found[1].id,
                   cache |-> DictSet(cache, contact_id, found[1].id),
                   queried |-> TRUE]

\* message_df["sender"].apply(lambda sender_id:
\*     contact_id_map.get(sender_id) or self.get_address_for_contact_id(...))
\* done: rows already labelled; an empty name is falsy, like a missing key;
\* lookups: the identifiers the handle relation was queried for, in order
RECURSIVE ApplySenders(_, _, _, _, _)
ApplySenders(rows, contact_id_map, cache, done, lookups) ==
    IF rows = <<>>
    THEN [ok |-> TRUE, error |-> "", value |-> done, cache |-> cache,
          lookups |-> lookups]
    ELSE LET r == Head(rows)
             known == DictHas(contact_id_map, r.sender)
                      /\ DictGet(contact_id_map, r.sender) /= <<>>
         IN  IF known
             THEN ApplySenders(Tail(rows), contact_id_map, cache,
                      Append(done, [r EXCEPT !.sender = DictGet(contact_id_map, r.sender)]),
                      lookups)
             ELSE LET a == get_address_for_contact_id(r.sender, cache)
                      asked == IF a.queried THEN Append(lookups, r.sender) ELSE lookups
                  IN  IF ~a.ok
                      THEN [ok |-> FALSE, error |-> a.error, value |-> <<>>,
                            cache |-> a.cache, lookups |-> asked]
                      ELSE ApplySenders(Tail(rows), contact_id_map, a.cache,
                               Append(done, [r EXCEPT !.sender = a.value]), asked)

\* the result of a load: the frame or the error, the cache as the call leaves
\* it, the addresses the [WARN] line lists (<<>>: nothing printed), and
\* whether the message query ran
LoadResult(ok, error, value, cache, warning, fetched) ==
    [ok |-> ok, error |-> error, value |-> value, cache |-> cache,
     warning |-> warning, fetched |-> fetched]

GroupChat_load_messages(gc, since, cache) ==
    LET contact_id_map == MembersLoop(gc.members, << <<0, gc.user_name>> >>)
    IN  IF ~contact_id_map.ok
        THEN LoadResult(FALSE, contact_id_map.error, <<>>, cache, <<>>, FALSE)
        ELSE
        LET chat_ids == GroupChat_get_chat_ids(gc)
        IN  IF ~chat_ids.ok
            THEN LoadResult(FALSE, chat_ids.error, <<>>, cache, <<>>, FALSE)
            ELSE
            LET message_df == GroupChat_get_message_df(chat_ids.value, since)
                applied == ApplySenders(message_df, contact_id_map.value, cache, <<>>, <<>>)
            IN  IF ~applied.ok
                THEN LoadResult(FALSE, applied.error, <<>>, applied.cache, <<>>, TRUE)
                         @@ [lookups |-> applied.lookups]
                ELSE LoadResult(TRUE, "", applied.value, applied.cache,
                                DictValues(applied.cache), TRUE)
                         @@ [lookups |-> applied.lookups]

(***************************************************************************)
(* IndividualChat.load_messages (individual_chat.py)                       *)
(***************************************************************************)
\* a labelling that gives every row the counterpart's name
IndividualSender_other(ic, is_from_me) == ic.other_person.name

\* self.user_name if is_from_me == 1 else self.other_person.name
IndividualSender(ic, is_from_me) ==
    IF is_from_me = 1 THEN ic.user_name ELSE ic.other_person.name

IndividualChat_load_messages(ic, since, cache) ==
    LET chat_ids == IndividualChat_get_chat_ids(ic)
    IN  IF ~chat_ids.ok
        THEN LoadResult(FALSE, chat_ids.error, <<>>, cache, <<>>, FALSE)
        ELSE
        LET message_df == IndividualChat_get_message_df(chat_ids.value, since)
            Labelled(r) == [index |-> r.index,
                            sender |-> IndividualSender(ic, r.is_from_me),
                            text |-> r.text, time |-> r.time, type |-> r.type]
        IN  LoadResult(TRUE, "", [i \in DOMAIN message_df |-> Labelled(message_df[i])],
                       cache, <<>>, TRUE)

\* self.chat.load_messages(...): the method of the configured chat class
chat_load_messages(c, since, cache) ==
    IF c.kind = "group" THEN GroupChat_load_messages(c, since, cache)
    ELSE IndividualChat_load_messages(c, since, cache)

chat_get_chat_ids(c) ==
    IF c.kind = "group" THEN GroupChat_get_chat_ids(c)
    ELSE IndividualChat_get_chat_ids(c)

(***************************************************************************)
(* Specification SpecContact: Contact(name, addresses) on bounded inputs   *)
(***************************************************************************)
MaxChunks == 4

\* pieces a written address is made of: digit groups, punctuation, letters
ChunkPool == { <<>>, <<"1","2","3">>, <<"4","5","6","7","8">>, <<"-">>,
               <<"(", "a">>, <<"@">> }

RawAddresses == { Concat(t) : t \in [1..MaxChunks -> ChunkPool] }

\* a second address of the list: none, a good phone number, a bad one, an email
SecondAddresses == { <<>>,
                     << <<"9","8","7","-","6","5","4","-","3","2","1","0">> >>,
                     << <<"5","5","5">> >>,
                     << <<"e","@","x">> >> }

NotCalled == [ok |-> FALSE, error |-> "not called", value |-> <<>>]

NoStore == /\ handle = <<>> /\ chat = <<>> /\ message = <<>>
           /\ chat_message_join = <<>>
NoCall  == /\ call = [op |-> "none"] /\ ret = NotCalled
           /\ unknown_addresses = <<>>
NoChat  == /\ pc = "idle" /\ messages = <<>> /\ csv = <<>> /\ hist = <<>>
NoProc  == /\ proc = <<>> /\ conn = <<>> /\ disk = <<>> /\ gpt = <<>>

InitContact ==
    /\ c_args \in { [name |-> <<"A","l">>, addresses |-> <<>>] }
           \cup { [name |-> <<"A","l">>, addresses |-> <<a>> \o more] :
                      a \in RawAddresses, more \in SecondAddresses }
    /\ c_res = NotCalled
    /\ NoStore /\ NoCall /\ NoChat /\ NoProc /\ CHATS = <<>>

\* c = Contact(name, addresses)
ConstructContact ==
    /\ c_res = NotCalled
    /\ c_res' = ContactInit(c_args.name, c_args.addresses)
    /\ UNCHANGED <<c_args, storeVars, CHATS, callVars, chatVars, procVars>>

NextContact == ConstructContact

SpecContact == InitContact /\ [][NextContact]_vars

(* ---- C9 ---- *)
DigitPositions(a) == { i \in DOMAIN a : a[i] \in Digits }

\* the digits of a, in order, built from their positions
RECURSIVE DigitsFrom(_, _)
DigitsFrom(a, i) ==
    IF i > Len(a) THEN <<>>
    ELSE (IF i \in DigitPositions(a) THEN <<a[i]>> ELSE <<>>) \o DigitsFrom(a, i + 1)

HasAt(a) == \E i \in DOMAIN a : a[i] = "@"

AddressAccepted(a) ==
    \/ HasAt(a)
    \/ /\ Cardinality(DigitPositions(a)) >= 10
       /\ Cardinality(DigitPositions(a)) <= 15

\* C9: Contact construction accepts an address without "@" iff it has 10 to
\* 15 digits once every non-digit is removed, and stores exactly those digits;
\* fewer than 10 or more than 15 digits raises ValueError; an address with "@"
\* is stored unchanged; an empty address list raises ValueError.
C9_ContactConstruction ==
    c_res /= NotCalled =>
        LET as == c_args.addresses
        IN  /\ as = <<>> => (~c_res.ok /\ c_res.error = "ValueError")
            /\ c_res.ok <=> (as /= <<>> /\ \A i \in DOMAIN as : AddressAccepted(as[i]))
            /\ ~c_res.ok => c_res.error = "ValueError"
            /\ c_res.ok =>
                 /\ c_res.value.name = c_args.name
                 /\ Len(c_res.value.addresses) = Len(as)
                 /\ \A i \in DOMAIN as :
                      c_res.value.addresses[i] =
                          IF HasAt(as[i]) THEN as[i] ELSE DigitsFrom(as[i], 1)

\* a 10-digit and a 15-digit number with punctuation were accepted and cleaned
C9_Witness ==
    /\ c_res /= NotCalled /\ c_res.ok
    /\ \E i \in DOMAIN c_args.addresses :
         /\ ~HasAt(c_args.addresses[i])
         /\ Cardinality(DigitPositions(c_args.addresses[i])) = 10
         /\ Len(c_args.addresses[i]) > 10


(***************************************************************************)
(* Stores and descriptors of the bounded runs                              *)
(***************************************************************************)
You      == <<"Y","o","u">>
Al       == <<"A","l">>
Bo       == <<"B","o">>
Hi       == <<"h","i">>
PhoneA   == <<"1","2","3","4","5","6","7","8","9","0">>
PhoneB   == <<"1","0","0","0","0","0","0","0","0","0">>
HPhoneA  == <<"+","1">> \o PhoneA
EmailC   == <<"C","@","x">>
HEmailC  == <<"c","@","x">>
EmailU   == <<"a","_","b","@","x">>
HEmailD  == <<"a",".","b","@","x">>
HUnknown == <<"u","@","x">>

H(rowid, id) == [ROWID |-> rowid, id |-> id]
Ch(rowid, display_name, chat_identifier) ==
    [ROWID |-> rowid, display_name |-> display_name, chat_identifier |-> chat_identifier]
GcName  == <<"g","c">>
GcOther == <<"G","c">>
Chat1   == <<"c","h","a","t","1">>
Chat4   == <<"c","h","a","t","4">>

Person(name, addresses) == [name |-> name, addresses |-> addresses]
NoPerson == Person(<<>>, <<>>)

\* GroupChat(name, members): user_name is "You", the cache starts empty
GroupChat(name, members) ==
    [kind |-> "group", name |-> name, members |-> members,
     other_person |-> NoPerson, user_name |-> You]

\* IndividualChat(other_person)
IndividualChat(other_person) ==
    [kind |-> "individual", name |-> <<>>, members |-> <<>>,
     other_person |-> other_person, user_name |-> You]

\* the handle and chat relations of the tests (conftest.py), with the email
\* handle of the chat tests
HandleTests == << H(1, HPhoneA), H(2, HEmailC), H(4, HPhoneA), H(5, HUnknown) >>
ChatTests   == << Ch(1, GcName, Chat1), Ch(3, <<>>, HPhoneA), Ch(4, GcName, Chat4),
                  Ch(6, <<>>, HPhoneA), Ch(7, <<>>, HEmailC) >>
\* two people whose addresses differ in one character, one of them "_"
HandleUnder == << H(1, EmailU), H(2, HEmailD), H(3, HUnknown) >>
ChatUnder   == << Ch(1, GcName, Chat1), Ch(2, <<>>, EmailU), Ch(3, <<>>, HEmailD) >>
\* only the address with "." is in the store
HandleDot   == << H(2, HEmailD), H(3, HUnknown) >>
ChatDot     == << Ch(1, GcName, Chat1), Ch(3, <<>>, HEmailD) >>
\* a handle relation whose first ROWID is 0
HandleZero  == << H(0, HEmailC), H(1, HPhoneA) >>
ChatZero    == << Ch(1, GcName, Chat1), Ch(2, <<>>, HPhoneA) >>

\* a store and a descriptor; conv, conv2 and other name the chats new rows are
\* joined to (two chats meant for the conversation, one of another conversation)
Scenario(h, c, d) ==
    [handle |-> h, chat |-> c, desc |-> d,
     conv  |-> IF d.kind = "group" THEN c[1].ROWID ELSE c[2].ROWID,
     conv2 |-> IF d.kind = "group" /\ Len(c) >= 3 THEN c[3].ROWID
               ELSE IF d.kind = "group" THEN c[1].ROWID ELSE c[Len(c)].ROWID,
     other |-> IF d.kind = "group" THEN c[2].ROWID ELSE c[1].ROWID]

Scenarios ==
    { Scenario(HandleTests, ChatTests, d) : d \in {
        GroupChat(GcName, << Person(Al, <<PhoneA, EmailC>>), Person(Bo, <<PhoneA>>) >>),
        GroupChat(GcName, << Person(Al, <<PhoneA>>) >>),
        GroupChat(GcOther, << Person(Al, <<PhoneA>>) >>),
        GroupChat(GcName, << Person(Al, <<PhoneA>>), Person(Bo, <<PhoneB>>) >>),
        IndividualChat(Person(Al, <<PhoneA, EmailC>>)),
        IndividualChat(Person(Al, <<PhoneA, PhoneB>>)),
        IndividualChat(Person(Bo, <<PhoneB>>)) } }
    \cup
    { Scenario(HandleUnder, ChatUnder, d) : d \in {
        GroupChat(GcName, << Person(Al, <<EmailU>>), Person(Bo, <<HEmailD>>) >>),
        GroupChat(GcName, << Person(Bo, <<HEmailD>>), Person(Al, <<EmailU>>) >>),
        IndividualChat(Person(Al, <<EmailU>>)) } }
    \cup
    { Scenario(HandleDot, ChatDot, d) : d \in {
        GroupChat(GcName, << Person(Al, <<EmailU>>) >>),
        IndividualChat(Person(Al, <<EmailU>>)) } }
    \cup
    { Scenario(HandleZero, ChatZero, d) : d \in {
        GroupChat(GcName, << Person(Al, <<EmailC>>) >>),
        GroupChat(GcName, << Person(Al, <<EmailC>>), Person(<<>>, <<EmailC>>) >>),
        GroupChat(GcName, << Person(<<>>, <<PhoneA>>) >>) } }

\* the key of the configured chat in CHATS
ChatKey == <<"k">>
Desc == CHATS[ChatKey]

\* INSERT INTO message ...; INSERT INTO chat_message_join ...
InsertRow(handle_id, is_from_me, text, date, type, chat_id) ==
    LET rowid == Len(message) + 1
    IN  /\ message' = Append(message,
               [ROWID |-> rowid, handle_id |-> handle_id, is_from_me |-> is_from_me,
                text |-> text, date |-> date, associated_message_type |-> type])
        /\ chat_message_join' = Append(chat_message_join,
               [chat_id |-> chat_id, message_id |-> rowid])

(***************************************************************************)
(* Specification SpecExtract: the extractor methods called on a store      *)
(***************************************************************************)
MaxMessages == 2

ExtractDates == {0, 1}
ExtractSince == { <<>>, <<0>>, <<1>> }

\* the descriptors whose conversation also gets rows of senders outside the
\* declared participants
StrayDescs == { GroupChat(GcName, << Person(Al, <<PhoneA>>) >>),
                IndividualChat(Person(Al, <<PhoneA, EmailC>>)) }

\* rows of the second handle and of a handle_id that has no row in handle
StrayRows(sc) ==
    { [handle_id |-> sc.handle[2].ROWID, is_from_me |-> 0, text |-> Hi, chat_id |-> sc.conv],
      [handle_id |-> 99, is_from_me |-> 0, text |-> Hi, chat_id |-> sc.conv2] }

\* the rows the Messages app may store: from the owner, from the first handle
\* (in the second chat of the conversation), from the last handle, a row of
\* another conversation, and a row without text
NewRows(sc) ==
    { [handle_id |-> 0, is_from_me |-> 1, text |-> Hi, chat_id |-> sc.conv],
      [handle_id |-> sc.handle[1].ROWID, is_from_me |-> 0, text |-> Hi, chat_id |-> sc.conv2],
      [handle_id |-> sc.handle[Len(sc.handle)].ROWID, is_from_me |-> 0, text |-> Hi,
       chat_id |-> sc.conv],
      [handle_id |-> sc.handle[1].ROWID, is_from_me |-> 0, text |-> Hi, chat_id |-> sc.other],
      [handle_id |-> 0, is_from_me |-> 1, text |-> NULL, chat_id |-> sc.conv] }
    \cup (IF sc.handle = HandleTests /\ sc.desc \in StrayDescs THEN StrayRows(sc) ELSE {})

InitExtract ==
    /\ \E sc \in Scenarios :
         /\ handle = sc.handle
         /\ chat = sc.chat
         /\ CHATS = (ChatKey :> sc.desc)
         /\ c_args = sc
    /\ message = <<>> /\ chat_message_join = <<>>
    /\ NoCall /\ NoChat /\ NoProc
    /\ c_res = NotCalled

\* the Messages app stores a message
ExtractInsert ==
    /\ call.op = "none"
    /\ Len(message) < MaxMessages
    /\ \E r \in NewRows(c_args), date \in ExtractDates :
         InsertRow(r.handle_id, r.is_from_me, r.text, date, 0, r.chat_id)
    /\ UNCHANGED <<handle, chat, CHATS, callVars, contactVars, chatVars, procVars>>

\* chat.get_chat_ids(db)
CallGetChatIds ==
    /\ call.op = "none"
    /\ call' = [op |-> "get_chat_ids"]
    /\ ret' = chat_get_chat_ids(Desc)
    /\ UNCHANGED <<storeVars, CHATS, unknown_addresses, contactVars, chatVars, procVars>>

\* member.get_contact_ids(db)
CallGetContactIds ==
    /\ call.op = "none"
    /\ \E i \in DOMAIN Desc.members :
         /\ call' = [op |-> "get_contact_ids", member |-> i]
         /\ ret' = get_contact_ids(Desc.members[i])
    /\ UNCHANGED <<storeVars, CHATS, unknown_addresses, contactVars, chatVars, procVars>>

\* chat.load_messages(db, since)
CallLoadMessages ==
    /\ call.op = "none"
    /\ \E since \in ExtractSince :
         LET r == chat_load_messages(Desc, since, unknown_addresses)
         IN  /\ call' = [op |-> "load_messages", since |-> since]
             /\ ret' = r
             /\ unknown_addresses' = r.cache
    /\ UNCHANGED <<storeVars, CHATS, contactVars, chatVars, procVars>>

\* the caller is done with the value returned
CallReturns ==
    /\ call.op /= "none"
    /\ call' = [op |-> "none"] /\ ret' = NotCalled
    /\ UNCHANGED <<storeVars, CHATS, unknown_addresses, contactVars, chatVars, procVars>>

NextExtract ==
    \/ ExtractInsert
    \/ CallReturns
    \/ CallGetChatIds
    \/ CallGetContactIds
    \/ CallLoadMessages

SpecExtract == InitExtract /\ [][NextExtract]_vars


(***************************************************************************)
(* Claims about the extractor methods (SpecExtract)                        *)
(***************************************************************************)
\* address occurs in id at position i; ASCII letters compare without case
OccursAt(id, address, i) ==
    /\ i + Len(address) - 1 <= Len(id)
    /\ \A k \in DOMAIN address : Lower(address[k]) = Lower(id[i + k - 1])

\* "id contains address", as the claims say it
ContainsAddress(id, address) == \E i \in 1..Len(id) : OccursAt(id, address, i)

\* id matches the pattern %address% of LIKE, for an address without "%":
\* as containment, but a "_" of the address stands for any one character
LikeOccursAt(id, address, i) ==
    /\ i + Len(address) - 1 <= Len(id)
    /\ \A k \in DOMAIN address :
         address[k] = "_" \/ Lower(address[k]) = Lower(id[i + k - 1])

MatchesAddress(id, address) == \E i \in 1..Len(id) : LikeOccursAt(id, address, i)

\* the ROWIDs of the rows of rel, in scan order, that satisfy p
RowIdsWhere(rel, p(_)) ==
    LET sel == SelectSeq(rel, p) IN [i \in DOMAIN sel |-> sel[i].ROWID]

(* ---- C6 ---- *)
\* C6: get_chat_ids (group and individual) returns a non-empty list of
\* conversation identifiers or raises ValueError; it never returns an empty list.
C6_LocateNeverEmpty ==
    call.op = "get_chat_ids" =>
        \/ ret.ok /\ Len(ret.value) > 0
        \/ ~ret.ok /\ ret.error = "ValueError"

\* a group whose display name no chat row has: the call raised
C6_Witness ==
    /\ call.op = "get_chat_ids" /\ Desc.kind = "group"
    /\ \A i \in DOMAIN chat : chat[i].display_name /= Desc.name
    /\ ~ret.ok

(* ---- C7 ---- *)
\* the identifiers the claim expects for one address, and for all of them
ChatIdsContaining(address) ==
    LET Has(r) == ContainsAddress(r.chat_identifier, address)
    IN  RowIdsWhere(chat, Has)

RECURSIVE ConcatOver(_, _)
ConcatOver(f(_), addresses) ==
    IF addresses = <<>> THEN <<>>
    ELSE f(Head(addresses)) \o ConcatOver(f, Tail(addresses))


ChatIdsMatching(address) ==
    LET Has(r) == MatchesAddress(r.chat_identifier, address)
    IN  RowIdsWhere(chat, Has)

HandleIdsContaining(address) ==
    LET Has(r) == ContainsAddress(r.id, address)
    IN  RowIdsWhere(handle, Has)

\* C8: get_contact_ids returns, for each address in declared order, the
\* ROWIDs of all handle rows whose id contains the address, and raises ValueError
\* if a declared address matches no handle row; so a group load_messages fails,
\* before it fetches any message, when a participant address is not in the store.
C8_Original ==
    /\ call.op = "get_contact_ids" =>
         LET addresses == Desc.members[call.member].addresses
         IN  IF \E i \in DOMAIN addresses : HandleIdsContaining(addresses[i]) = <<>>
             THEN ~ret.ok /\ ret.error = "ValueError"
             ELSE ret.ok /\ ret.value = ConcatOver(HandleIdsContaining, addresses)
    /\ (call.op = "load_messages" /\ Desc.kind = "group") =>
         ((\E m \in DOMAIN Desc.members : \E i \in DOMAIN Desc.members[m].addresses :
               HandleIdsContaining(Desc.members[m].addresses[i]) = <<>>)
          => (~ret.ok /\ ret.error = "ValueError" /\ ~ret.fetched))

(* ---- C2 ---- *)
\* the (message, join) pairs of the conversation that carry a text
ConvPairs ==
    LET ids == chat_get_chat_ids(Desc)
    IN  { p \in (DOMAIN message) \X (DOMAIN chat_message_join) :
            /\ ids.ok
            /\ chat_message_join[p[2]].message_id = message[p[1]].ROWID
            /\ InSeq(chat_message_join[p[2]].chat_id, ids.value)
            /\ message[p[1]].text /= NULL }

NewerPairs(since) ==
    { p \in ConvPairs : since = <<>> \/ message[p[1]].date > since[1] }

Content(text, time, type) == <<text, time, type>>

\* df holds, row for row up to order, the content of the store rows pairs
SameContent(df, pairs) ==
    /\ Len(df) = Cardinality(pairs)
    /\ \A k \in DOMAIN df :
         Cardinality({ j \in DOMAIN df :
             Content(df[j].text, df[j].time, df[j].type)
               = Content(df[k].text, df[k].time, df[k].type) })
         = Cardinality({ p \in pairs :
             Content(message[p[1]].text, message[p[1]].date,
                     message[p[1]].associated_message_type)
               = Content(df[k].text, df[k].time, df[k].type) })

\* C2: load_messages(db, since=T), group and individual, returns exactly the
\* rows of the conversation (those that carry a text) whose timestamp is
\* strictly greater than T, none with timestamp T; with since empty it returns
\* all of them.
C2_ExclusiveSince ==
    (call.op = "load_messages" /\ ret.ok) =>
        LET expected == NewerPairs(call.since)
            df == ret.value
        IN  /\ Len(df) = Cardinality(expected)
            /\ \A k \in DOMAIN df :
                 /\ call.since /= <<>> => df[k].time > call.since[1]
                 /\ Cardinality({ j \in DOMAIN df :
                        Content(df[j].text, df[j].time, df[j].type)
                          = Content(df[k].text, df[k].time, df[k].type) })
                    = Cardinality({ p \in expected :
                        Content(message[p[1]].text, message[p[1]].date,
                                message[p[1]].associated_message_type)
                          = Content(df[k].text, df[k].time, df[k].type) })

\* a load with since = T on a conversation that has a row at T and a newer one
C2_Witness ==
    /\ call.op = "load_messages" /\ ret.ok /\ call.since /= <<>>
    /\ \E p \in ConvPairs : message[p[1]].date = call.since[1]
    /\ \E p \in ConvPairs : message[p[1]].date > call.since[1]
    /\ Len(ret.value) = 1

(* ---- C10 ---- *)
\* the sender identifiers of the rows a group load returns, row by row
RawSenders ==
    LET ids == GroupChat_get_chat_ids(Desc)
        df == GroupChat_get_message_df(ids.value, call.since)
    IN  [k \in DOMAIN df |-> df[k].sender]

\* the participants, by position, one of whose addresses resolves to sender_id
Claimants(sender_id) ==
    { m \in DOMAIN Desc.members :
        \E i \in DOMAIN Desc.members[m].addresses :
          \E h \in DOMAIN handle :
            /\ handle[h].ROWID = sender_id
            /\ MatchesAddress(handle[h].id, Desc.members[m].addresses[i]) }

SetMax(S) == CHOOSE x \in S : \A y \in S : y <= x

TimeAscending(df) == \A j, k \in DOMAIN df : j < k => df[j].time <= df[k].time

AddressOf(sender_id) ==
    LET HasId(r) == r.ROWID = sender_id IN SelectSeq(handle, HasId)[1].id

\* a sender identifier the declared participants (or the owner) give a name
Covered(sender_id) ==
    IF Claimants(sender_id) /= {}
    THEN Desc.members[SetMax(Claimants(sender_id))].name /= <<>>
    ELSE sender_id = 0

\* the unknown sender identifiers of the rows the call fetched
UnknownIds == { RawSenders[k] : k \in DOMAIN RawSenders } \ { id \in 0..99 : Covered(id) }

\* C11 as stated: a row of a group load whose sender identifier no declared
\* participant covers is labelled with the address handle stores for it, and
\* the load prints one warning whose count is the number of distinct unknown
\* sender identifiers encountered and which lists the address of each.
C11_Original ==
    (call.op = "load_messages" /\ Desc.kind = "group" /\ ret.ok) =>
        /\ \A k \in DOMAIN ret.value :
             RawSenders[k] \in UnknownIds => ret.value[k].sender = AddressOf(RawSenders[k])
        /\ UnknownIds /= {} =>
             /\ Len(ret.warning) = Cardinality(UnknownIds)
             /\ { ret.warning[i] : i \in DOMAIN ret.warning }
                  = { AddressOf(id) : id \in UnknownIds }

(* ---- C12 ---- *)
\* C12 as stated: when the declared participants and the conversation are
\* found in the store, a group load completes and returns a table, whatever
\* the sender identifiers of the fetched rows, also one without a handle row.
C12_Original ==
    (/\ call.op = "load_messages" /\ Desc.kind = "group"
     /\ MembersLoop(Desc.members, <<>>).ok
     /\ GroupChat_get_chat_ids(Desc).ok) => ret.ok

(* ---- C13 ---- *)
\* C13 as stated: the warning a group load prints lists only sender
\* identifiers of the rows that load fetched, and a load whose rows have no
\* unknown sender prints no warning, whatever earlier loads on the same
\* extractor met.
C13_Original ==
    (call.op = "load_messages" /\ Desc.kind = "group" /\ ret.ok) =>
        /\ \A i \in DOMAIN ret.warning :
             \E id \in UnknownIds : ret.warning[i] = AddressOf(id)
        /\ UnknownIds = {} => ret.warning = <<>>

(* ---- C24 ---- *)
\* C24: within one group load_messages call the handle relation is queried
\* for the address of an unknown sender identifier at most once per distinct
\* identifier, however many fetched rows carry it, and only for identifiers
\* of fetched rows; every row with the same unknown identifier gets the
\* address the first lookup returned.
C24_OneLookupPerSender ==
    (call.op = "load_messages" /\ Desc.kind = "group" /\ ret.fetched) =>
        /\ \A i, j \in DOMAIN ret.lookups :
             ret.lookups[i] = ret.lookups[j] => i = j
        /\ \A i \in DOMAIN ret.lookups :
             \E k \in DOMAIN RawSenders : RawSenders[k] = ret.lookups[i]
        /\ ret.ok =>
             \A k \in DOMAIN ret.value :
                 RawSenders[k] \in UnknownIds =>
                     /\ ret.value[k].sender = AddressOf(RawSenders[k])
                     /\ \A m \in DOMAIN ret.value :
                          RawSenders[m] = RawSenders[k] =>
                              ret.value[m].sender = ret.value[k].sender

\* a load fetched two rows of one unknown sender and queried handle once
C24_Witness ==
    /\ call.op = "load_messages" /\ Desc.kind = "group" /\ ret.ok
    /\ Len(ret.value) = 2 /\ Len(ret.lookups) = 1
    /\ RawSenders[1] = RawSenders[2] /\ RawSenders[1] \in UnknownIds
    /\ ret.lookups[1] = RawSenders[1]
    /\ ret.value[1].sender = ret.value[2].sender

(* ---- C25 ---- *)
\* the participants that resolve to the sender identifier of row k
Sharers(k) == Claimants(RawSenders[k])

\* the participant that comes last in the participants list among those that
\* resolve to the sender identifier of row k
LaterSharer(k) == Desc.members[SetMax(Sharers(k))]

RawIndividual ==
    IndividualChat_get_message_df(IndividualChat_get_chat_ids(Desc).value, call.since)

\* C14: an individual load labels a row with the owner name when its
\* is_from_me flag is 1 and with the counterpart's name otherwise; it does not
\* consult handle (a sender without a handle row does not make it fail); its
\* rows have the columns sender, text, time, type and are in timestamp order
\* over all located conversation identifiers.
C14_IndividualLabels ==
    (call.op = "load_messages" /\ Desc.kind = "individual") =>
        /\ ret.ok <=> IndividualChat_get_chat_ids(Desc).ok
        /\ ret.ok =>
             /\ Len(ret.value) = Len(RawIndividual)
             /\ \A k \in DOMAIN ret.value :
                  /\ DOMAIN ret.value[k] \ {"index"} = {"sender", "text", "time", "type"}
                  /\ RawIndividual[k].is_from_me = 1
                       => ret.value[k].sender = Desc.user_name
                  /\ RawIndividual[k].is_from_me /= 1
                       => ret.value[k].sender = Desc.other_person.name
                  /\ ret.value[k].text = RawIndividual[k].text
                  /\ ret.value[k].time = RawIndividual[k].time
             /\ TimeAscending(ret.value)
             /\ SameContent(ret.value, NewerPairs(call.since))
             /\ ret.cache = <<>> /\ ret.warning = <<>>

\* an individual load returned a row of the owner and a row of the
\* counterpart, one of them in the second conversation identifier, and a row
\* whose handle_id has no handle row
C14_Witness ==
    /\ call.op = "load_messages" /\ Desc.kind = "individual" /\ ret.ok
    /\ \E j, k \in DOMAIN ret.value :
         /\ ret.value[j].sender = Desc.user_name
         /\ ret.value[k].sender = Desc.other_person.name
    /\ Cardinality({ chat_message_join[p[2]].chat_id : p \in NewerPairs(call.since) }) = 2
    /\ \E p \in NewerPairs(call.since) : message[p[1]].handle_id = 99

(* ---- C15 ---- *)
\* lists of conversation identifiers: one chat, the two chats of the
\* conversation, a chat of the conversation with another one
ChatIdLists ==
    { <<c_args.conv>>, <<c_args.other>>, <<c_args.conv, c_args.conv2>>,
      <<c_args.other, c_args.conv>> }

\* C15: whatever the insertion order of the message rows and whatever the
\* conversation identifiers, the table get_message_df returns (group and
\* individual) has non-decreasing timestamps, also over several conversation
\* identifiers; so has the table a load returns.  (The store changes only
\* between calls, so every store is met in a state without a call.)
C15_QueryOrders ==
    /\ call.op = "none" =>
       \A chat_ids \in ChatIdLists, since \in ExtractSince :
         /\ TimeAscending(GroupChat_get_message_df(chat_ids, since))
         /\ TimeAscending(IndividualChat_get_message_df(chat_ids, since))
    /\ (call.op = "load_messages" /\ ret.ok) => TimeAscending(ret.value)

\* a load returned two rows of two conversation identifiers, the row stored
\* first having the later timestamp
C15_Witness ==
    /\ call.op = "load_messages" /\ ret.ok /\ Len(ret.value) = 2
    /\ ret.value[1].time < ret.value[2].time
    /\ \E p, q \in NewerPairs(call.since) :
         /\ message[p[1]].ROWID < message[q[1]].ROWID
         /\ message[p[1]].date > message[q[1]].date
         /\ chat_message_join[p[2]].chat_id /= chat_message_join[q[2]].chat_id

(***************************************************************************)
(* Rules (rules.py)                                                        *)
(***************************************************************************)
\* \w of re: letters, digits and the underscore
Letters == { LowerCase[i] : i \in DOMAIN LowerCase } \cup
           { UpperCase[i] : i \in DOMAIN UpperCase }
WordChars == Letters \cup Digits \cup {"_"}

\* messages[messages["text"].str.contains(r"\w")]
remove_non_alphanumeric_messages(df) ==
    LET HasWord(r) == \E i \in DOMAIN r.text : r.text[i] \in WordChars
    IN  SelectSeq(df, HasWord)

\* a filter that drops the reactions, whose type is 2000 and above
remove_reactions(df) ==
    LET NotReaction(r) == r.type < 2000 IN SelectSeq(df, NotReaction)

\* messages[messages["type"] == "0"]
remove_non_standard_imessages(df) ==
    LET Standard(r) == r.type = 0 IN SelectSeq(df, Standard)

\* the character class of link_regex: [a-zA-Z], [0-9], the range [$-_]
\* (ASCII 0x24 to 0x5F), "@", ".", "&", "+", "!", "*", "(", ")", ",", " "
LinkChars ==
    Letters \cup Digits \cup
    { "$", "%", "&", "'", "(", ")", "*", "+", ",", "-", ".", "/", ":", ";",
      "<", "=", ">", "?", "@", "[", "\\", "]", "^", "_", "!", " " }

Http  == <<"h","t","t","p",":","/","/">>
Https == <<"h","t","t","p","s",":","/","/">>

StartsWith(text, i, prefix) ==
    /\ i + Len(prefix) - 1 <= Len(text)
    /\ \A k \in DOMAIN prefix : text[i + k - 1] = prefix[k]

\* where the characters after the scheme start if link_regex matches at i,
\* which takes at least one character of the class; 0 if it does not match
LinkBody(text, i) ==
    IF /\ StartsWith(text, i, Https)
       /\ i + Len(Https) <= Len(text) /\ text[i + Len(Https)] \in LinkChars
    THEN i + Len(Https)
    ELSE IF /\ StartsWith(text, i, Http)
            /\ i + Len(Http) <= Len(text) /\ text[i + Len(Http)] \in LinkChars
         THEN i + Len(Http)
         ELSE 0

\* a match that takes one character of the class and stops
LinkEnd_lazy(text, i) == i + 1

\* ( ... )+ is greedy: the match ends at the first character outside the class
RECURSIVE LinkEnd(_, _)
LinkEnd(text, i) ==
    IF i <= Len(text) /\ text[i] \in LinkChars THEN LinkEnd(text, i + 1) ELSE i

\* re.sub(link_regex, "", text), scanning from position i
RECURSIVE SubLinks(_, _)
SubLinks(text, i) ==
    IF i > Len(text) THEN <<>>
    ELSE LET body == LinkBody(text, i)
         IN  IF body > 0 THEN SubLinks(text, LinkEnd(text, body))
             ELSE <<text[i]>> \o SubLinks(text, i + 1)

\* messages["text"] = [re.sub(link_regex, "", str(text)) for text in ...]
remove_links(df) ==
    [k \in DOMAIN df |-> [df[k] EXCEPT !.text = SubLinks(@, 1)]]

\* what the table passed to a rule holds once the rule has returned:
\* remove_links assigns the text column of its argument and returns that same
\* table, the two filters build a new table and leave their argument alone
ArgumentAfter(func, df) ==
    IF func = "remove_links" THEN remove_links(df) ELSE df

\* tests/mac/chat_test.py: messages[messages["sender"] != member]
remove_member(df, member) ==
    LET Other(r) == r.sender /= member IN SelectSeq(df, Other)

\* the row r put into rows, which are in descending order of time
RECURSIVE InsertByTimeDesc(_, _)
InsertByTimeDesc(rows, r) ==
    IF rows = <<>> THEN <<r>>
    ELSE IF r.time > Head(rows).time THEN <<r>> \o rows
         ELSE <<Head(rows)>> \o InsertByTimeDesc(Tail(rows), r)

\* tests/mac/chat_test.py: messages.sort_values(by=["time"], ascending=False)
RECURSIVE reverse_order(_)
reverse_order(df) ==
    IF df = <<>> THEN <<>>
    ELSE InsertByTimeDesc(reverse_order(Tail(df)), Head(df))

\* Rule(func, kwargs); kwargs is a dict
Rule(func, kwargs) == [func |-> func, kwargs |-> kwargs]

\* the rules __main__ applies, in its order
StockRules == << Rule("remove_links", <<>>),
                 Rule("remove_non_standard_imessages", <<>>),
                 Rule("remove_non_alphanumeric_messages", <<>>) >>

\* func(self.messages, **kwargs)
RuleFunc(rule, df) ==
    CASE rule.func = "remove_links" -> remove_links(df)
      [] rule.func = "remove_non_standard_imessages" -> remove_non_standard_imessages(df)
      [] rule.func = "remove_non_alphanumeric_messages" -> remove_non_alphanumeric_messages(df)
      [] rule.func = "remove_member" -> remove_member(df, DictGet(rule.kwargs, "member"))
      [] rule.func = "reverse_order" -> reverse_order(df)

\* a table whose rows keep the index they had
keep_index(df) == df

\* df.reset_index(drop=True, inplace=True): the rows are numbered from 0
reset_index(df) == [k \in DOMAIN df |-> [df[k] EXCEPT !.index = k - 1]]

\* apply_rules without a call of reset_index after the last rule
RECURSIVE apply_rules_unreset(_, _)
apply_rules_unreset(rules, df) ==
    IF rules = <<>> THEN df
    ELSE IF Len(rules) = 1 THEN RuleFunc(Head(rules), df)
         ELSE apply_rules_unreset(Tail(rules), reset_index(RuleFunc(Head(rules), df)))

\* for rule in rules: self.messages = func(self.messages, **kwargs)
\*                    self.messages.reset_index(drop=True, inplace=True)
RECURSIVE apply_rules(_, _)
apply_rules(rules, df) ==
    IF rules = <<>> THEN df
    ELSE apply_rules(Tail(rules), reset_index(RuleFunc(Head(rules), df)))

(***************************************************************************)
(* The persisted table messages.csv (pandas to_csv / read_csv)             *)
(*                                                                         *)
(* A file is the sequence of its data rows; a field is its text.  read_csv *)
(* turns a field that spells a missing value into NaN, and to_csv writes   *)
(* NaN as the empty field.                                                 *)
(***************************************************************************)
NaN == <<"<NaN>">>

\* the default na_values of read_csv that every pandas release shares
NaValues ==
    { <<>>,
      <<"#","N","/","A">>, <<"#","N","/","A"," ","N","/","A">>, <<"#","N","A">>,
      <<"-","1",".","#","I","N","D">>, <<"-","1",".","#","Q","N","A","N">>,
      <<"-","N","a","N">>, <<"-","n","a","n">>,
      <<"1",".","#","I","N","D">>, <<"1",".","#","Q","N","A","N">>,
      <<"N","/","A">>, <<"N","A">>, <<"N","U","L","L">>, <<"N","a","N">>,
      <<"n","/","a">>, <<"n","a","n">>, <<"n","u","l","l">> }

ReadField(field) == IF field \in NaValues THEN NaN ELSE field
WriteField(value) == IF value = NaN THEN <<>> ELSE value

\* pd.read_csv(self.messages_csv)
read_csv(rows) ==
    [k \in DOMAIN rows |->
        [index |-> k - 1,
         sender |-> ReadField(rows[k].sender), text |-> ReadField(rows[k].text),
         time |-> rows[k].time, type |-> rows[k].type]]

\* df.to_csv(self.messages_csv, index=False)
to_csv(df) ==
    [k \in DOMAIN df |->
        [sender |-> WriteField(df[k].sender), text |-> WriteField(df[k].text),
         time |-> df[k].time, type |-> df[k].type]]

NoFile == [exists |-> FALSE, rows |-> <<>>]
File(rows) == [exists |-> TRUE, rows |-> rows]

(***************************************************************************)
(* Chat (chat.py)                                                          *)
(***************************************************************************)
\* a watermark taken from the first row of the earlier table
latest_message_time_first(earlier_messages) == << earlier_messages[1].time >>

\* str(earlier_messages.iloc[-1]["time"])
latest_message_time(earlier_messages) ==
    << earlier_messages[Len(earlier_messages)].time >>

\* Chat.load_messages of a Chat whose chat is c, whose messages_csv is file
\* and whose chat has the cache; iloc[-1] of a frame without rows raises
\* IndexError
Chat_load_messages_of(c, file, cache) ==
    IF file.exists
    THEN LET earlier_messages == read_csv(file.rows)
         IN  IF earlier_messages = <<>>
             THEN LoadResult(FALSE, "IndexError", <<>>, cache, <<>>, FALSE)
                      @@ [since |-> <<>>]
             ELSE chat_load_messages(c, latest_message_time(earlier_messages), cache)
                      @@ [since |-> latest_message_time(earlier_messages)]
    ELSE chat_load_messages(c, <<>>, cache) @@ [since |-> <<>>]

\* Chat.load_messages of the one configured chat
Chat_load_messages == Chat_load_messages_of(Desc, csv, unknown_addresses)

\* Chat.__init__: the platform, the configured chat, the database, the load
Chat_init(system, chat_name, readable) ==
    IF system /= "Darwin" THEN Raise("OSError")
    ELSE IF chat_name \notin DOMAIN CHATS THEN Raise("KeyError")
    ELSE IF ~readable THEN Raise("PermissionError")
    ELSE Chat_load_messages

\* a save that writes the new rows before the earlier ones
Chat_save_messages_prepended(file, table) ==
    IF file.exists
    THEN File(to_csv(table \o read_csv(file.rows)))
    ELSE File(to_csv(table))

\* Chat.save_messages of a Chat whose messages_csv is file and whose messages
\* are table: what the file holds afterwards
Chat_save_messages_of(file, table) ==
    IF file.exists
    THEN File(to_csv(read_csv(file.rows) \o table))
    ELSE File(to_csv(table))

\* Chat.save_messages of the one configured chat
Chat_save_messages == Chat_save_messages_of(csv, messages)

(***************************************************************************)
(* Chat.create_data_dir (chat.py)                                          *)
(***************************************************************************)
\* characters \s of re matches
Whitespace == {" ", "\t", "\n"}

\* re.sub(r"\s+", "_", chat_name): every run of whitespace becomes one "_"
RECURSIVE sub_whitespace(_)
sub_whitespace(text) ==
    IF text = <<>> THEN <<>>
    ELSE IF Head(text) \in Whitespace
         THEN IF Len(text) > 1 /\ text[2] \in Whitespace
              THEN sub_whitespace(Tail(text))
              ELSE <<"_">> \o sub_whitespace(Tail(text))
         ELSE <<Head(text)>> \o sub_whitespace(Tail(text))

\* re.sub(r"[\W]+", "", friendly_name): what is not a word character goes
sub_nonword(text) ==
    LET IsWord(ch) == ch \in WordChars IN SelectSeq(text, IsWord)

\* str(n) of an integer
DigitChars == <<"0", "1", "2", "3", "4", "5", "6", "7", "8", "9">>
RECURSIVE StrOfNat(_)
StrOfNat(n) ==
    IF n < 10 THEN << DigitChars[n + 1] >>
    ELSE StrOfNat(n \div 10) \o << DigitChars[(n % 10) + 1] >>
StrOfInt(n) == IF n < 0 THEN <<"-">> \o StrOfNat(0 - n) ELSE StrOfNat(n)

\* hash(chat_name) in a process whose string hashes are str_hash: the hash
\* of a string is salted with a value drawn when the interpreter starts,
\* that of the empty string is 0
hash(str_hash, chat_name) ==
    IF chat_name = <<>> THEN 0 ELSE str_hash[chat_name]

DataPrefix == <<"d", "a", "t", "a", "/">>

friendly_name(chat_name) == sub_nonword(sub_whitespace(chat_name))

\* Chat.create_data_dir: the path it returns (and creates)
create_data_dir(str_hash, chat_name) ==
    IF Len(friendly_name(chat_name)) = 0
    THEN DataPrefix \o StrOfInt(hash(str_hash, chat_name))
    ELSE DataPrefix \o friendly_name(chat_name)

(***************************************************************************)
(* Specification Spec: runs of the program on one conversation.  A run is  *)
(* a process: Chat(chat_name), optionally apply_rules with the rules of    *)
(* __main__, save_messages, exit.  Between runs the Messages app stores    *)
(* rows.                                                                   *)
(***************************************************************************)
MaxRuns == 2

Systems   == { "Darwin", "Linux" }
ChatNames == { ChatKey, <<"z">> }

ChatScenarios ==
    { Scenario(HandleTests, ChatTests, d) : d \in {
        GroupChat(GcName, << Person(Al, <<PhoneA, EmailC>>) >>),
        IndividualChat(Person(Al, <<PhoneA, EmailC>>)) } }

NaText   == <<"N","/","A">>
Reaction == <<"L","o","v","e","d"," ","h","i">>

\* the rows the Messages app stores, in the order it stores them: each is
\* stored or not.  Timestamps do not follow the storage order.
Candidates(sc) ==
    << [handle_id |-> 0, is_from_me |-> 1, text |-> NaText, date |-> 0, type |-> 0,
        chat_id |-> sc.conv],
       [handle_id |-> sc.handle[1].ROWID, is_from_me |-> 0, text |-> Hi, date |-> 1,
        type |-> 0, chat_id |-> sc.conv],
       [handle_id |-> 0, is_from_me |-> 1, text |-> Hi, date |-> 0, type |-> 0,
        chat_id |-> sc.conv],
       [handle_id |-> sc.handle[1].ROWID, is_from_me |-> 0, text |-> Hi, date |-> 1,
        type |-> 0, chat_id |-> sc.conv],
       [handle_id |-> 0, is_from_me |-> 1, text |-> Hi, date |-> 2, type |-> 0,
        chat_id |-> sc.conv],
       [handle_id |-> 0, is_from_me |-> 1, text |-> Hi, date |-> 2, type |-> 0,
        chat_id |-> sc.other],
       [handle_id |-> sc.handle[1].ROWID, is_from_me |-> 0, text |-> Reaction, date |-> 3,
        type |-> 2000, chat_id |-> sc.conv] >>

\* the history of the runs: the number of constructions that completed, the
\* last candidate stored, and of the current run the file found, the
\* watermark, the table as loaded, the rules applied, the size of the store
\* and the store rows fetched; the store rows fetched by earlier runs; of the
\* previous run whether it was a full extraction, its rules and its store
\* size; whether every earlier run applied the rules of __main__
NoRun == [full |-> FALSE, rules |-> <<>>, store |-> 0]
NoHistory ==
    [runs |-> 0, stored |-> 0, prior |-> NoFile, since |-> <<>>, loaded |-> <<>>,
     rules |-> <<>>, store |-> 0, now |-> {}, before |-> {}, prev |-> NoRun,
     all_stock |-> TRUE]

Init ==
    /\ \E sc \in ChatScenarios :
         /\ handle = sc.handle
         /\ chat = sc.chat
         /\ CHATS = (ChatKey :> sc.desc)
         /\ c_args = sc
    /\ message = <<>> /\ chat_message_join = <<>>
    /\ NoCall
    /\ c_res = NotCalled
    /\ pc = "idle" /\ messages = <<>> /\ csv = NoFile /\ hist = NoHistory
    /\ NoProc

\* the Messages app stores a message while no run is in progress
StoreMessage ==
    /\ pc = "idle" /\ hist.runs < MaxRuns
    /\ \E i \in DOMAIN Candidates(c_args) :
         /\ i > hist.stored
         /\ LET r == Candidates(c_args)[i]
            IN  InsertRow(r.handle_id, r.is_from_me, r.text, r.date, r.type, r.chat_id)
         /\ hist' = [hist EXCEPT !.stored = i]
    /\ UNCHANGED <<handle, chat, CHATS, callVars, contactVars, pc, messages, csv, procVars>>

\* chat = Chat(chat_name)
Construct ==
    /\ pc = "idle" /\ hist.runs < MaxRuns
    /\ \E system \in Systems, chat_name \in ChatNames, readable \in BOOLEAN :
         LET r == Chat_init(system, chat_name, readable)
         IN  IF r.ok
             THEN /\ pc' = "loaded"
                  /\ messages' = r.value
                  /\ unknown_addresses' = r.cache
                  /\ ret' = Return(<<>>)
                  /\ hist' = [hist EXCEPT !.runs = @ + 1, !.prior = csv,
                                !.since = r.since, !.loaded = r.value,
                                !.rules = <<>>, !.store = Len(message),
                                !.now = { message[p[1]].ROWID : p \in NewerPairs(r.since) }]
             ELSE /\ pc' = "failed"
                  /\ ret' = Raise(r.error)
                  /\ UNCHANGED <<messages, unknown_addresses, hist>>
    /\ UNCHANGED <<storeVars, CHATS, call, contactVars, csv, procVars>>

\* chat.apply_rules(Rule(remove_links), Rule(remove_non_standard_imessages),
\*                  Rule(remove_non_alphanumeric_messages))
ApplyRules ==
    /\ pc = "loaded" /\ hist.rules = <<>>
    /\ messages' = apply_rules(StockRules, messages)
    /\ hist' = [hist EXCEPT !.rules = StockRules]
    /\ UNCHANGED <<storeVars, CHATS, callVars, contactVars, pc, csv, procVars>>

\* chat.save_messages()
SaveMessages ==
    /\ pc = "loaded"
    /\ csv' = Chat_save_messages
    /\ pc' = "saved"
    /\ UNCHANGED <<storeVars, CHATS, callVars, contactVars, messages, hist, procVars>>

\* the process ends
Exit ==
    /\ pc \in {"saved", "failed"}
    /\ pc' = "idle" /\ messages' = <<>>
    /\ ret' = NotCalled /\ unknown_addresses' = <<>>
    /\ hist' = IF pc = "failed" THEN hist
               ELSE [hist EXCEPT !.prior = NoFile, !.since = <<>>, !.loaded = <<>>,
                       !.rules = <<>>, !.store = 0, !.now = {},
                       !.before = @ \cup hist.now,
                       !.prev = [full |-> ~hist.prior.exists, rules |-> hist.rules,
                                 store |-> hist.store],
                       !.all_stock = @ /\ hist.rules = StockRules]
    /\ UNCHANGED <<storeVars, CHATS, call, contactVars, csv, procVars>>

Next ==
    \/ StoreMessage
    \/ Construct
    \/ ApplyRules
    \/ SaveMessages
    \/ Exit

Spec == Init /\ [][Next]_vars

(***************************************************************************)
(* Claims about the runs (Spec)                                            *)
(***************************************************************************)
Times(rows) == { rows[k].time : k \in DOMAIN rows }

\* the cells of a table, row for row, without its row index
Columns(df) ==
    [k \in DOMAIN df |-> [sender |-> df[k].sender, text |-> df[k].text,
                          time |-> df[k].time, type |-> df[k].type]]

\* the rows of the conversation stored since the previous run
StoredSince(n) == { p \in ConvPairs : message[p[1]].ROWID > n }

(* ---- C1 ---- *)
\* C1: when a run finds a persisted table whose maximum timestamp is T,
\* Chat.load_messages returns exactly the rows of the conversation with a
\* timestamp above T (of rows at T-1, T, T+1 and T+2 those at T+1 and T+2),
\* and save_messages then appends the rows of the in-memory table to the
\* persisted table, which gains no row with a timestamp of T or less.
C1_IncrementalRun ==
    (pc \in {"loaded", "saved"} /\ hist.prior.exists /\ hist.prior.rows /= <<>>) =>
        LET T == SetMax(Times(hist.prior.rows))
            n == Len(hist.prior.rows)
        IN  /\ SameContent(hist.loaded, NewerPairs(<<T>>))
            /\ hist.rules = <<>> => messages = hist.loaded
            /\ pc = "saved" =>
                 /\ Len(csv.rows) = n + Len(messages)
                 /\ \A k \in DOMAIN messages : csv.rows[n + k] = Columns(messages)[k]
                 /\ \A k \in DOMAIN csv.rows : k > n => csv.rows[k].time > T

\* a run found a table with maximum T, the store had gained rows at T-1, T,
\* T+1 and T+2, the run loaded two rows and saved
C1_Witness ==
    /\ pc = "saved" /\ hist.rules = <<>>
    /\ hist.prior.exists /\ hist.prior.rows /= <<>>
    /\ LET T == SetMax(Times(hist.prior.rows))
       IN  /\ \A d \in {T - 1, T, T + 1, T + 2} :
                \E p \in StoredSince(hist.prev.store) : message[p[1]].date = d
           /\ Len(hist.loaded) = 2
           /\ Times(hist.loaded) = {T + 1, T + 2}
           /\ Len(csv.rows) = Len(hist.prior.rows) + 2

(* ---- C3 ---- *)
\* C3 as stated: after a full extraction and save, a second run (load, save)
\* on the unchanged store leaves the persisted table equal row for row to the
\* one the full extraction persisted, and its in-memory table is empty.
C3_Original ==
    (/\ pc = "saved" /\ hist.rules = <<>>
     /\ hist.prev.full /\ hist.prev.rules = <<>>
     /\ hist.store = hist.prev.store) =>
        /\ csv.rows = hist.prior.rows
        /\ messages = <<>>

(* ---- C4 ---- *)
\* C4 as stated: without a persisted table the fetch is full and save
\* persists exactly the in-memory table; with one, the watermark is the
\* timestamp of its last row, the in-memory table holds only the rows fetched
\* with it, and save persists the prior rows, unchanged, followed by the
\* in-memory rows.
C4_Original ==
    /\ (pc \in {"loaded", "saved"} /\ ~hist.prior.exists) => hist.since = <<>>
    /\ (pc = "saved" /\ ~hist.prior.exists) => csv = File(Columns(messages))
    /\ (pc \in {"loaded", "saved"} /\ hist.prior.exists) =>
         /\ hist.since = << hist.prior.rows[Len(hist.prior.rows)].time >>
         /\ SameContent(hist.loaded, NewerPairs(hist.since))
    /\ (pc = "saved" /\ hist.prior.exists) => csv = File(hist.prior.rows \o Columns(messages))

(* ---- C5 ---- *)
\* C5 as stated: when every run is load_messages, apply_rules with the rules
\* of __main__, save_messages, no run fetches a store row an earlier run
\* fetched.
C5_Original ==
    (pc = "loaded" /\ hist.all_stock) => hist.now \cap hist.before = {}

(* ---- C28 ---- *)
\* C28 as stated: whatever table an earlier run persisted, a table of zero rows
\* included, the next construction that reaches load_messages derives a
\* watermark or fetches everything, and does not raise on account of the
\* persisted table.
C28_Original ==
    (pc = "failed" /\ csv.exists) => ret.error /= "IndexError"

(***************************************************************************)
(* Specification SpecRules: a Chat whose load returned a table, to which   *)
(* apply_rules is applied, or on which a rule is called directly.  The     *)
(* loaded table is time-ascending with distinct timestamps and carries the *)
(* index 0..k-1 that get_message_df gives it.                              *)
(***************************************************************************)
MaxRows  == 2
MaxRules == 2

TextBang   == <<"!">>
TextLink   == <<"h","t","t","p",":","/","/","a">>
TextAround == <<"a"," ","h","t","t","p","s",":","/","/","b","#",
                "h","t","t","p",":","/","/","c"," ","d">>
TextDomain == <<"a",".","b">>
TextScheme == <<"a"," ","h","t","t","p",":","/","/">>

\* the rows a loaded table is made of: sender, text, type
RowPool ==
    { [sender |-> You, text |-> Hi,         type |-> 0],
      [sender |-> Al,  text |-> TextBang,   type |-> 1000],
      [sender |-> Al,  text |-> TextLink,   type |-> 2000],
      [sender |-> You, text |-> TextAround, type |-> 0],
      [sender |-> Al,  text |-> TextDomain, type |-> 0],
      [sender |-> You, text |-> TextScheme, type |-> 2000] }

LoadedTables ==
    { [k \in DOMAIN rows |->
          [index |-> k - 1, sender |-> rows[k].sender, text |-> rows[k].text,
           time |-> k, type |-> rows[k].type]] :
      rows \in UNION { [1..n -> RowPool] : n \in 0..MaxRows } }

\* Rule(remove_member, {"member": ...}), Rule(reverse_order) and the stock rules
RulePool ==
    { StockRules[i] : i \in DOMAIN StockRules } \cup
    { Rule("remove_member", << <<"member", Al>> >>),
      Rule("remove_member", << <<"member", You>> >>),
      Rule("reverse_order", <<>>) }

\* the lists of n rules
RuleLists(n) == [1..n -> RulePool]

\* the rules of a sequence of calls, in the order they were applied
RECURSIVE RulesOf(_)
RulesOf(calls) ==
    IF calls = <<>> THEN <<>> ELSE Head(calls) \o RulesOf(Tail(calls))

InitRules ==
    /\ messages \in LoadedTables
    /\ pc = "loaded"
    /\ hist = [loaded |-> messages, calls |-> <<>>]
    /\ csv = <<>>
    /\ c_args = <<>> /\ c_res = NotCalled
    /\ NoStore /\ NoCall /\ NoProc /\ CHATS = <<>>

\* chat.apply_rules(*rules)
ApplyRulesCall ==
    \E n \in 1..(MaxRules - Len(RulesOf(hist.calls))) : \E rules \in RuleLists(n) :
        /\ pc = "loaded" /\ call.op /= "rule"
        /\ messages' = apply_rules(rules, messages)
        /\ call' = [op |-> "apply_rules", rules |-> rules, before |-> messages]
        /\ hist' = [hist EXCEPT !.calls = Append(@, rules)]
        /\ UNCHANGED <<contactVars, storeVars, CHATS, ret, unknown_addresses,
                       pc, csv, procVars>>

\* returned = rule.func(chat.messages, **rule.kwargs), called on the loaded
\* table; messages is the table that was passed, as it is after the call
RuleCall ==
    \E rule \in RulePool :
        /\ pc = "loaded" /\ call.op = "none"
        /\ call' = [op |-> "rule", rule |-> rule, arg |-> messages]
        /\ ret' = Return(RuleFunc(rule, messages))
        /\ messages' = ArgumentAfter(rule.func, messages)
        /\ UNCHANGED <<contactVars, storeVars, CHATS, unknown_addresses,
                       pc, csv, hist, procVars>>

NextRules ==
    \/ ApplyRulesCall
    \/ RuleCall

SpecRules == InitRules /\ [][NextRules]_vars

(***************************************************************************)
(* Claims about the rules (SpecRules)                                      *)
(***************************************************************************)
\* the rows of df, cell for cell, numbered 0..k-1
Dense(df) ==
    [k \in DOMAIN df |->
        [index |-> k - 1, sender |-> df[k].sender, text |-> df[k].text,
         time |-> df[k].time, type |-> df[k].type]]

\* the table after the first i rules of rs, starting from table t
RECURSIVE Stage(_, _, _)
Stage(rs, t, i) ==
    IF i = 0 THEN t ELSE Dense(RuleFunc(rs[i], Stage(rs, t, i - 1)))

(* ---- C16 ---- *)
\* C16: Chat.apply_rules(r1, ..., rn) applies the rules in the given order,
\* rule i receiving the table rule i-1 produced and its own keyword
\* arguments (a remove_member rule leaves no row of its member), and after
\* every rule the row index of the table is 0..k-1 for its k rows.
C16_RulesInOrder ==
    call.op = "apply_rules" =>
        /\ messages = Stage(call.rules, call.before, Len(call.rules))
        /\ \A i \in DOMAIN call.rules :
             LET after == Stage(call.rules, call.before, i)
             IN  /\ \A k \in DOMAIN after : after[k].index = k - 1
                 /\ call.rules[i].func = "remove_member" =>
                      \A k \in DOMAIN after :
                          after[k].sender /= DictGet(call.rules[i].kwargs, "member")
        /\ \A k \in DOMAIN messages : messages[k].index = k - 1

\* remove_links then remove_non_alphanumeric_messages dropped the first row,
\* whose text was a link, so that the row that had index 1 has index 0; in
\* the opposite order the two rules keep both rows
C16_Witness ==
    /\ call.op = "apply_rules" /\ Len(call.rules) = 2
    /\ call.rules[1].func = "remove_links"
    /\ call.rules[2].func = "remove_non_alphanumeric_messages"
    /\ Len(call.before) = 2 /\ Len(messages) = 1
    /\ call.before[1].text = TextLink /\ call.before[2].index = 1
    /\ messages[1].time = call.before[2].time /\ messages[1].index = 0
    /\ Len(Stage(<<call.rules[2], call.rules[1]>>, call.before, 2)) = 2

(* ---- C17 ---- *)
\* C17: for all rules A and B and every table, the one call apply_rules(A, B)
\* leaves the same final table as the two consecutive calls apply_rules(A)
\* and apply_rules(B).
C17_TwoCallsAsOne ==
    /\ (/\ Len(hist.calls) = 2
        /\ Len(hist.calls[1]) = 1 /\ Len(hist.calls[2]) = 1) =>
           messages = apply_rules(<<hist.calls[1][1], hist.calls[2][1]>>, hist.loaded)
    /\ (Len(hist.calls) = 1 /\ Len(hist.calls[1]) = 2) =>
           messages = apply_rules(<<hist.calls[1][2]>>,
                                  apply_rules(<<hist.calls[1][1]>>, hist.loaded))

\* two calls of one rule each, different rules, each of which changed the
\* table it was given, the first by dropping the first of two rows
C17_Witness ==
    /\ Len(hist.calls) = 2 /\ Len(hist.calls[1]) = 1 /\ Len(hist.calls[2]) = 1
    /\ hist.calls[1] /= hist.calls[2]
    /\ Len(hist.loaded) = 2 /\ Len(call.before) = 1
    /\ call.before[1].time = hist.loaded[2].time
    /\ messages /= call.before /\ Len(messages) = 1

(* ---- C18 ---- *)
StockFuncs == { StockRules[i].func : i \in DOMAIN StockRules }

\* C18 as stated: each stock rule is a pure function, the table passed in as
\* argument being the same, row for row and cell for cell, after the call as
\* before it.
C18_Original ==
    (call.op = "rule" /\ call.rule.func \in StockFuncs) => messages = call.arg

(* ---- C19 ---- *)
\* a link starts at position s of text: a scheme and at least one character
\* of the class after it; SchemeEnd is the position of that character
SchemeEnd(text, s) ==
    IF StartsWith(text, s, Https) THEN s + Len(Https)
    ELSE IF StartsWith(text, s, Http) THEN s + Len(Http)
         ELSE 0

HasScheme(text) == \E s \in DOMAIN text : SchemeEnd(text, s) > 0

\* position i of text lies in a link: in a scheme that characters of the
\* class follow, or in the run of such characters after it
InLink(text, i) ==
    \E s \in 1..i :
        LET b == SchemeEnd(text, s)
        IN  /\ b > 0 /\ b <= Len(text) /\ text[b] \in LinkChars
            /\ \A j \in b..i : text[j] \in LinkChars

Surrounding(text) == { i \in DOMAIN text : ~InLink(text, i) }

\* out is text without the positions that lie in a link
LinksRemoved(text, out) ==
    /\ Len(out) = Cardinality(Surrounding(text))
    /\ \A i \in Surrounding(text) :
         out[Cardinality({ j \in Surrounding(text) : j <= i })] = text[i]

\* C19: remove_links returns as many rows as it is given, in the same order
\* and with every column other than text unchanged; each text loses every
\* substring that starts with http:// or https:// and continues over the
\* character class, and keeps the text around it; a row whose text becomes
\* empty is kept; a text without a scheme is unchanged.
C19_LinksRemoved ==
    (call.op = "rule" /\ call.rule.func = "remove_links") =>
        /\ ret.ok /\ Len(ret.value) = Len(call.arg)
        /\ \A k \in DOMAIN call.arg :
             /\ ret.value[k].index = call.arg[k].index
             /\ ret.value[k].sender = call.arg[k].sender
             /\ ret.value[k].time = call.arg[k].time
             /\ ret.value[k].type = call.arg[k].type
             /\ LinksRemoved(call.arg[k].text, ret.value[k].text)
             /\ ~HasScheme(call.arg[k].text) => ret.value[k].text = call.arg[k].text

\* remove_links was given a text that is a link and a text with two links in
\* it, and returned an empty text and the text around the two links
C19_Witness ==
    /\ call.op = "rule" /\ call.rule.func = "remove_links"
    /\ Len(call.arg) = 2
    /\ call.arg[1].text = TextLink /\ ret.value[1].text = <<>>
    /\ call.arg[2].text = TextAround /\ ret.value[2].text = <<"a", " ", "#">>

(* ---- C20 ---- *)
\* the positions of the rows of df whose type is the string "0"
StandardRows(df) == { k \in DOMAIN df : df[k].type = 0 }

DbStates == { "ok", "cannot_open", "cannot_query", "not_a_database" }

\* an exception: its class and the pieces of its message
Exception(type, text) == [type |-> type, message |-> text]
NoException == Exception("", <<>>)

OSErrorText      == "Can only read messages on Mac :/. Detected that you are using "
KeyErrorText     == "Didn't find chat "
FullDiskAccess   == "4. Go to Full Disk Access"
PermissionErrorText ==
    << "There was an error accessing the messages database.",
       "1. Open System Preferences", "2. Go to Security and Privacy",
       "3. Go to Privacy", FullDiskAccess,
       "5. Give whatever application you're running this from Full Disk Access, and then run the script again" >>

\* connect_to_db: whether a connection was opened, and the cursor it returns
\* or the exception it raises
connect_to_db(db_state) ==
    CASE db_state = "ok" ->
           [opened |-> TRUE, ok |-> TRUE, error |-> NoException]
      [] db_state = "cannot_open" ->
           [opened |-> FALSE, ok |-> FALSE,
            error |-> Exception("PermissionError", PermissionErrorText)]
      [] db_state = "cannot_query" ->
           [opened |-> TRUE, ok |-> FALSE,
            error |-> Exception("PermissionError", PermissionErrorText)]
      [] db_state = "not_a_database" ->
           [opened |-> TRUE, ok |-> FALSE,
            error |-> Exception("DatabaseError", <<"file is not a database">>)]

\* a connection of the process: whether close() was called on it or the
\* runtime reclaimed it, and whether a cursor of it is held in self.chat_db
Connection(closed, held) == [closed |-> closed, held |-> held]

\* pathlib.Path(data_dir).mkdir(parents=True, exist_ok=True)
mkdir(tree, data_dir) ==
    IF DictHas(tree, data_dir) THEN tree ELSE Append(tree, <<data_dir, NoFile>>)

\* the file messages.csv of a directory
messages_csv(tree, data_dir) ==
    IF DictHas(tree, data_dir) THEN DictGet(tree, data_dir) ELSE NoFile

\* the file messages.csv of data_dir written
write_csv(tree, data_dir, file) ==
    [i \in DOMAIN tree |-> IF tree[i][1] = data_dir THEN <<data_dir, file>> ELSE tree[i]]

\* Chat.__init__(chat_name) in a process on platform system whose string
\* hashes are str_hash, the database file being in db_state and the data
\* directories being tree: the attributes set on self, the connections
\* opened, the data directories afterwards, and the exception if one is raised
Chat_new(system, str_hash, chat_name, db_state, tree) ==
    LET none == [attrs |-> {}, conn |-> <<>>, disk |-> tree, data_dir |-> <<>>,
                 messages |-> <<>>, ok |-> FALSE, error |-> NoException]
    IN
    IF system /= "Darwin"
    THEN [none EXCEPT !.error = Exception("OSError", <<OSErrorText, system, ".">>)]
    ELSE IF chat_name \notin DOMAIN CHATS
    THEN [none EXCEPT !.error = Exception("KeyError", <<KeyErrorText, chat_name>>)]
    ELSE
    LET db == connect_to_db(db_state)
        looked == [none EXCEPT !.attrs = {"chat", "user_name"}]
    IN
    IF ~db.ok
    THEN [looked EXCEPT !.error = db.error,
                        !.conn = IF db.opened THEN << Connection(FALSE, FALSE) >>
                                 ELSE <<>>]
    ELSE
    LET data_dir == create_data_dir(str_hash, chat_name)
        made == mkdir(tree, data_dir)
        load == Chat_load_messages_of(CHATS[chat_name], messages_csv(made, data_dir), <<>>)
        set  == [looked EXCEPT
                    !.attrs = {"chat", "user_name", "chat_db", "data_dir", "messages_csv"},
                    !.conn = << Connection(FALSE, TRUE) >>,
                    !.disk = made, !.data_dir = data_dir]
    IN
    IF ~load.ok
    THEN [set EXCEPT !.error = Exception(load.error, <<>>)]
    ELSE [set EXCEPT !.attrs = @ \cup {"messages"}, !.messages = load.value, !.ok = TRUE]

\* Chat.__del__: self.chat_db.connection.close(), or AttributeError, caught,
\* when self has no chat_db; the connections afterwards and what it raises
Chat_del(attrs, connections) ==
    IF "chat_db" \in attrs
    THEN [conn |-> [i \in DOMAIN connections |->
                      IF connections[i].held THEN Connection(TRUE, TRUE)
                      ELSE connections[i]],
          error |-> NoException]
    ELSE [conn |-> connections, error |-> NoException]

(***************************************************************************)
(* Specification SpecConstruct: processes that construct a Chat for one of *)
(* several configured names, may save its messages, finalize it and exit.  *)
(* The store holds one message of the group "gc".                          *)
(***************************************************************************)
MaxProcs == 2

NameAB      == <<"a", "b">>
NameSpace   == <<"a", " ", "b">>
NameTab     == <<"a", " ", "\t", "b">>
NameUnder   == <<"a", "_", "b">>
NameDash    == <<"a", "-", "b">>
NameQuery   == <<"?">>
NameGone    == <<"g", "o">>
NameMissing == <<"z">>

\* the keys of CHATS; the group of NameGone is not in the store
ConfiguredNames ==
    { NameAB, NameSpace, NameTab, NameUnder, NameDash, NameQuery, NameGone }
GivenNames == ConfiguredNames \cup { NameMissing }

\* the hashes a process can give to the names that have no friendly name
HashValues == { -7, 7 }
StrHashes  == [ { NameQuery } -> HashValues ]

\* the process: its position, what it was given, the attributes of the Chat,
\* its data directory, the exception raised, and the data directories as
\* they were when the process started
NoProcess == [pc |-> "none", system |-> "", str_hash |-> <<>>, chat_name |-> <<>>,
              db_state |-> "", attrs |-> {}, data_dir |-> <<>>, error |-> NoException,
              del_error |-> NoException, before |-> <<>>]

\* a run of the history, which holds the runs that constructed a Chat: the
\* name given, the directory, the messages.csv found there, whether the run
\* saved its messages
Run(chat_name, data_dir, found) ==
    [chat_name |-> chat_name, data_dir |-> data_dir, found |-> found, saved |-> FALSE]

\* of the inputs of a process those that Chat(chat_name) reads: the state of
\* the database when it connects, the string hashes when it calls hash
ReadsDb(system, chat_name) == system = "Darwin" /\ chat_name \in ConfiguredNames
ReadsHash(system, chat_name, db_state) ==
    ReadsDb(system, chat_name) /\ db_state = "ok" /\ friendly_name(chat_name) = <<>>

InitConstruct ==
    /\ handle = HandleTests /\ chat = ChatTests
    /\ message = << [ROWID |-> 1, handle_id |-> 1, is_from_me |-> 0, text |-> Hi,
                     date |-> 1, associated_message_type |-> 0] >>
    /\ chat_message_join = << [chat_id |-> 1, message_id |-> 1] >>
    /\ CHATS = [ n \in ConfiguredNames |->
                   IF n = NameGone THEN GroupChat(GcOther, << Person(Al, <<PhoneA>>) >>)
                   ELSE GroupChat(GcName, << Person(Al, <<PhoneA>>) >>) ]
    /\ c_args = <<>> /\ c_res = NotCalled
    /\ NoCall
    /\ pc = "idle" /\ messages = <<>> /\ csv = <<>>
    /\ hist = [procs |-> 0, runs |-> <<>>]
    /\ proc = NoProcess /\ conn = <<>> /\ disk = <<>> /\ gpt = <<>>

\* a process starts and runs chat = Chat(chat_name)
ConstructChat ==
    /\ proc.pc = "none" /\ hist.procs < MaxProcs
    /\ \E system \in Systems, chat_name \in GivenNames :
       \E db_state \in IF ReadsDb(system, chat_name) THEN DbStates ELSE {""} :
       \E str_hash \in IF ReadsHash(system, chat_name, db_state) THEN StrHashes ELSE {<<>>} :
       \E r \in { Chat_new(system, str_hash, chat_name, db_state, disk) } :
             /\ proc' = [pc |-> IF r.ok THEN "constructed" ELSE "failed",
                         system |-> system, str_hash |-> str_hash,
                         chat_name |-> chat_name, db_state |-> db_state,
                         attrs |-> r.attrs, data_dir |-> r.data_dir, error |-> r.error,
                         del_error |-> NoException, before |-> disk]
             /\ conn' = r.conn
             /\ disk' = r.disk
             /\ messages' = r.messages
             /\ hist' = [procs |-> hist.procs + 1,
                         runs |-> IF r.ok
                                  THEN Append(hist.runs,
                                         Run(chat_name, r.data_dir,
                                             messages_csv(disk, r.data_dir)))
                                  ELSE hist.runs]
    /\ UNCHANGED <<contactVars, storeVars, CHATS, callVars, pc, csv, gpt>>

\* chat.save_messages()
SaveChat ==
    /\ proc.pc = "constructed"
    /\ disk' = write_csv(disk, proc.data_dir,
                         Chat_save_messages_of(messages_csv(disk, proc.data_dir), messages))
    /\ proc' = [proc EXCEPT !.pc = "saved"]
    /\ hist' = [hist EXCEPT !.runs[Len(hist.runs)].saved = TRUE]
    /\ UNCHANGED <<contactVars, storeVars, CHATS, callVars, pc, messages, csv, conn, gpt>>

\* the Chat is finalized: __del__ runs
FinalizeChat ==
    /\ proc.pc \in {"constructed", "saved", "failed"}
    /\ conn' = Chat_del(proc.attrs, conn).conn
    /\ proc' = [proc EXCEPT !.pc = "finalized",
                            !.del_error = Chat_del(proc.attrs, conn).error]
    /\ UNCHANGED <<contactVars, storeVars, CHATS, callVars, chatVars, disk, gpt>>

\* the runtime reclaims a connection that nothing holds, which closes it;
\* when it does so is up to the interpreter
ReclaimConnection ==
    /\ \E i \in DOMAIN conn :
         /\ ~conn[i].held /\ ~conn[i].closed
         /\ conn' = [conn EXCEPT ![i].closed = TRUE]
    /\ UNCHANGED <<contactVars, storeVars, CHATS, callVars, chatVars, proc, disk, gpt>>

\* the process ends
ExitProcess ==
    /\ proc.pc = "finalized"
    /\ proc' = NoProcess /\ conn' = <<>> /\ messages' = <<>>
    /\ UNCHANGED <<contactVars, storeVars, CHATS, callVars, pc, csv, hist, disk, gpt>>

NextConstruct ==
    \/ ConstructChat
    \/ SaveChat
    \/ FinalizeChat
    \/ ReclaimConnection
    \/ ExitProcess

SpecConstruct == InitConstruct /\ [][NextConstruct]_vars

(***************************************************************************)
(* Claims about construction (SpecConstruct)                               *)
(***************************************************************************)
\* the positions of chat_name that leave a character in the friendly name:
\* the word characters and the last character of every run of whitespace
FriendlyPositions(chat_name) ==
    { i \in DOMAIN chat_name :
        \/ chat_name[i] \in WordChars
        \/ /\ chat_name[i] \in Whitespace
           /\ (i = Len(chat_name) \/ chat_name[i + 1] \notin Whitespace) }

\* out is chat_name with every run of whitespace as one underscore and
\* without the other characters that are not word characters
IsFriendlyName(chat_name, out) ==
    /\ Len(out) = Cardinality(FriendlyPositions(chat_name))
    /\ \A i \in FriendlyPositions(chat_name) :
         out[Cardinality({ j \in FriendlyPositions(chat_name) : j <= i })]
           = IF chat_name[i] \in Whitespace THEN "_" ELSE chat_name[i]

\* data_dir is the path of chat_name: data/ and the friendly name, or data/
\* and a hash when the friendly name is empty
IsDataDir(chat_name, data_dir) ==
    \E out \in { SubSeq(data_dir, Len(DataPrefix) + 1, Len(data_dir)) } :
        /\ SubSeq(data_dir, 1, Len(DataPrefix)) = DataPrefix
        /\ IF FriendlyPositions(chat_name) = {}
           THEN \E h \in HashValues \cup {0} : out = StrOfInt(h)
           ELSE IsFriendlyName(chat_name, out)

\* the paths of the runs are those of their names
C21_PathOfName ==
    \A i \in DOMAIN hist.runs : IsDataDir(hist.runs[i].chat_name, hist.runs[i].data_dir)

(* ---- C21 ---- *)
\* C21 as stated: the path of the persisted state is a deterministic
\* function of the conversation name (runs of whitespace become one
\* underscore, other characters that are not alphanumeric or underscore are
\* removed, an empty result is replaced by a hash of the name), so that two
\* runs given the same name derive the same path and the second finds the
\* table the first persisted.
C21_Original ==
    /\ C21_PathOfName
    /\ \A i, j \in DOMAIN hist.runs :
         (i < j /\ hist.runs[i].chat_name = hist.runs[j].chat_name) =>
             /\ hist.runs[j].data_dir = hist.runs[i].data_dir
             /\ hist.runs[i].saved => hist.runs[j].found.exists

(* ---- C22 ---- *)
\* C22 as stated: every connection opened during the construction of a Chat
\* is closed once the Chat is finalized, whether the construction completed,
\* load_messages raised or the test query of connect_to_db failed; and
\* finalizing a Chat that holds no connection raises nothing.
C22_Original ==
    proc.pc = "finalized" =>
        /\ \A i \in DOMAIN conn : conn[i].closed
        /\ "chat_db" \notin proc.attrs => proc.del_error = NoException

(* ---- C23 ---- *)
\* the pieces of the message of the exception the construction raised
MessagePieces == { proc.error.message[i] : i \in DOMAIN proc.error.message }

\* the construction opened no database and left the data directories alone
NothingOpened == conn = <<>> /\ disk = proc.before /\ proc.data_dir = <<>>

\* C23 as stated: the construction of a Chat fails in a fixed order and
\* without effect on the persisted state: on a platform other than Darwin
\* with OSError naming the platform, before the chat is looked up or the
\* database opened; for a name that is not configured with KeyError, before
\* the database is opened; when the store cannot be queried with
\* PermissionError carrying the Full Disk Access text, before a data
\* directory is created or a message loaded.
C23_Original ==
    proc.pc \in {"constructed", "failed"} =>
        /\ proc.system /= "Darwin" =>
             /\ proc.pc = "failed" /\ proc.error.type = "OSError"
             /\ proc.system \in MessagePieces
             /\ proc.attrs = {} /\ NothingOpened
        /\ (proc.system = "Darwin" /\ proc.chat_name \notin DOMAIN CHATS) =>
             /\ proc.pc = "failed" /\ proc.error.type = "KeyError"
             /\ proc.attrs = {} /\ NothingOpened
        /\ (/\ proc.system = "Darwin" /\ proc.chat_name \in DOMAIN CHATS
            /\ proc.db_state /= "ok") =>
             /\ proc.pc = "failed" /\ proc.error.type = "PermissionError"
             /\ FullDiskAccess \in MessagePieces
             /\ disk = proc.before /\ proc.data_dir = <<>>
             /\ "messages" \notin proc.attrs /\ messages = <<>>

(* ---- C29 ---- *)
\* C29 as stated: two distinct configured names never derive the same data
\* directory, so no run finds in its data directory the messages.csv that a
\* run for another name saved.
C29_Original ==
    \A i, j \in DOMAIN hist.runs :
        hist.runs[i].chat_name /= hist.runs[j].chat_name =>
            /\ hist.runs[i].data_dir /= hist.runs[j].data_dir
            /\ (i < j /\ hist.runs[i].saved /\ hist.runs[j].found.exists) =>
                   hist.runs[i].data_dir /= hist.runs[j].data_dir

(***************************************************************************)
(* gpt_completion (llm_lib.py)                                             *)
(***************************************************************************)
\* text.strip(): the text without its leading and trailing whitespace
RECURSIVE lstrip(_)
lstrip(text) ==
    IF text /= <<>> /\ Head(text) \in Whitespace THEN lstrip(Tail(text)) ELSE text

RECURSIVE rstrip(_)
rstrip(text) ==
    IF text /= <<>> /\ text[Len(text)] \in Whitespace
    THEN rstrip(SubSeq(text, 1, Len(text) - 1)) ELSE text

strip(text) == rstrip(lstrip(text))

\* max_retries = 3
max_retries == 3

\* a loop that gives up one failure later
gives_up_late(retries) == retries > max_retries

\* if retries >= max_retries: return ...
gives_up(retries) == retries >= max_retries

\* response.choices[0].message.content: a text, or None
MessageContent(text) == [none |-> FALSE, text |-> text]
NoneContent   == [none |-> TRUE, text |-> <<>>]

\* what client.chat.completions.create(...) did: returned a response with this
\* content, or raised e
Responded(content) == [raised |-> FALSE, content |-> content, e |-> <<>>]
Raised(e)          == [raised |-> TRUE, content |-> NoneContent, e |-> e]

InvalidResponseText == <<"Did not get a valid response from GPT.">>
ErrorPrefix         == <<"Error communicating with OpenAI: ">>

\* gpt before a call of gpt_completion
NoCompletion ==
    [pc |-> "idle", calls |-> 0, retries |-> 0, requests |-> <<>>, sleeps |-> 0,
     printed |-> <<>>, result |-> <<>>]

(***************************************************************************)
(* Specification SpecCompletion: the prompt loop calling gpt_completion    *)
(***************************************************************************)
MaxCalls == 2

TextPadded  == <<" ", "o", "k", "\n">>
TextInner   == <<"a", " ", "b">>
TextBlank   == <<" ", "\t">>
Contents    == { MessageContent(TextPadded), MessageContent(TextInner), MessageContent(TextBlank), NoneContent }
ErrTimeout  == <<"t", "i", "m", "e", "d", " ", "o", "u", "t">>
ErrRate     == <<"4", "2", "9">>
ErrRefused  == <<"r", "e", "f", "u", "s", "e", "d">>
Errors      == { ErrTimeout, ErrRate, ErrRefused }
RequestOutcomes == { Responded(content) : content \in Contents } \cup { Raised(e) : e \in Errors }

InitCompletion ==
    /\ gpt = NoCompletion
    /\ proc = <<>> /\ conn = <<>> /\ disk = <<>>
    /\ pc = "prompt" /\ messages = <<>> /\ csv = <<>> /\ hist = <<>>
    /\ c_args = <<>> /\ c_res = NotCalled
    /\ NoStore /\ NoCall /\ CHATS = <<>>

\* response = gpt_completion(query, faiss_index), up to the loop:
\* context = generate_context(query, vector_index), which is outside the try
\* and raises what similarity_search raises
CallCompletion ==
    \E context_ok \in BOOLEAN :
        /\ gpt.pc \in {"idle", "returned"} /\ gpt.calls < MaxCalls
        /\ gpt' = [NoCompletion EXCEPT !.calls = gpt.calls + 1,
                                       !.pc = IF context_ok THEN "requesting" ELSE "raised"]
        /\ UNCHANGED <<contactVars, storeVars, CHATS, callVars, chatVars, proc, conn, disk>>

\* one pass of the loop up to the return or to time.sleep(1)
Request ==
    \E outcome \in RequestOutcomes :
        /\ gpt.pc = "requesting"
        /\ LET requests == Append(gpt.requests, outcome)
               retries  == gpt.retries + 1
           IN  gpt' =
                 IF ~outcome.raised
                 THEN [gpt EXCEPT !.requests = requests, !.pc = "returned",
                                  !.result = IF outcome.content.none
                                             THEN InvalidResponseText
                                             ELSE strip(outcome.content.text)]
                 ELSE IF gives_up(retries)
                 THEN [gpt EXCEPT !.requests = requests, !.retries = retries,
                                  !.pc = "returned", !.result = ErrorPrefix \o outcome.e]
                 ELSE [gpt EXCEPT !.requests = requests, !.retries = retries,
                                  !.pc = "sleeping",
                                  !.printed = Append(@, ErrorPrefix \o outcome.e)]
        /\ UNCHANGED <<contactVars, storeVars, CHATS, callVars, chatVars, proc, conn, disk>>

\* time.sleep(1) returns and the loop starts over
Sleep ==
    /\ gpt.pc = "sleeping"
    /\ gpt' = [gpt EXCEPT !.sleeps = @ + 1, !.pc = "requesting"]
    /\ UNCHANGED <<contactVars, storeVars, CHATS, callVars, chatVars, proc, conn, disk>>

NextCompletion ==
    \/ CallCompletion
    \/ Request
    \/ Sleep

\* a request that was issued returns or raises, and a sleep ends: the code is
\* sequential and both calls are bounded by the client's timeout and by one
\* second
SpecCompletion ==
    /\ InitCompletion /\ [][NextCompletion]_vars
    /\ WF_vars(Request) /\ WF_vars(Sleep)

(***************************************************************************)
(* Claims about gpt_completion (SpecCompletion)                            *)
(***************************************************************************)
(* ---- C26 ---- *)
\* the requests of the call that raised
Failures == { i \in DOMAIN gpt.requests : gpt.requests[i].raised }

\* the call made no request after one that did not raise, slept once after
\* every failed request that another request followed, and issued at most 3
RequestsInOrder ==
    /\ Len(gpt.requests) <= 3
    /\ \A i \in DOMAIN gpt.requests : i < Len(gpt.requests) => gpt.requests[i].raised
    /\ gpt.pc = "requesting" => gpt.sleeps = Len(gpt.requests)
    /\ gpt.pc \in {"sleeping", "returned"} => gpt.sleeps = Len(gpt.requests) - 1
    /\ gpt.pc = "raised" => gpt.requests = <<>>

\* after the third consecutive failure the call returned the prefix and the
\* last error
ThirdFailure ==
    (gpt.pc = "returned" /\ Failures = 1..3) =>
        gpt.result = ErrorPrefix \o gpt.requests[3].e

\* the call returns when a request did not raise or three requests raised
Returns == gpt.pc = "returned" => (Failures /= DOMAIN gpt.requests \/ Failures = 1..3)

\* C26 as stated: a failing completion request never makes gpt_completion
\* raise, and the call always terminates; it issues at most 3 requests,
\* returns the stripped text of the first request that succeeds without
\* issuing further requests, waits between a failed request and the next one,
\* and after the third consecutive failure returns a string starting "Error
\* communicating with OpenAI:" with the last error.
C26_Original ==
    /\ [](/\ RequestsInOrder /\ ThirdFailure /\ Returns
          /\ (gpt.pc = "returned" /\ Failures /= DOMAIN gpt.requests) =>
                 /\ ~gpt.requests[Len(gpt.requests)].content.none
                 /\ gpt.result = strip(gpt.requests[Len(gpt.requests)].content.text))
    /\ (gpt.pc = "requesting" ~> gpt.pc = "returned")

\* C26 amended: the same, except that a request that succeeds with no content
\* (None) makes the call return the fixed text "Did not get a valid response
\* from GPT." instead of a stripped text.
C26_Amended ==
    /\ [](/\ RequestsInOrder /\ ThirdFailure /\ Returns
          /\ (gpt.pc = "returned" /\ Failures /= DOMAIN gpt.requests) =>
                 LET content == gpt.requests[Len(gpt.requests)].content
                 IN  gpt.result = IF content.none THEN InvalidResponseText
                                  ELSE strip(content.text))
    /\ (gpt.pc = "requesting" ~> gpt.pc = "returned")

\* the call returned the last error after three failed requests and two sleeps
C26_Witness ==
    /\ gpt.pc = "returned" /\ Failures = 1..3 /\ gpt.sleeps = 2
    /\ gpt.requests[1].e /= gpt.requests[3].e
    /\ gpt.result = ErrorPrefix \o gpt.requests[3].e

(***************************************************************************)
(* Specification SpecWatermark: runs of the program on one conversation    *)
(* whose store only gains rows newer than every row it holds; a run        *)
(* applies any of the rules of __main__                                     *)
(***************************************************************************)
MaxStored == 2

\* the greatest date of the store, -1 for a store without messages
LatestDate == SetMax({ message[i].date : i \in DOMAIN message } \cup {-1})

\* what a new message can be: a text of the owner, a reaction or a text without
\* letters of the first handle, or a text of the owner in another conversation
NewMessages(sc) ==
    { [handle_id |-> 0, is_from_me |-> 1, text |-> Hi, type |-> 0, chat_id |-> sc.conv],
      [handle_id |-> sc.handle[1].ROWID, is_from_me |-> 0, text |-> Reaction,
       type |-> 2000, chat_id |-> sc.conv],
      [handle_id |-> sc.handle[1].ROWID, is_from_me |-> 0, text |-> TextBang,
       type |-> 0, chat_id |-> sc.conv],
      [handle_id |-> 0, is_from_me |-> 1, text |-> Hi, type |-> 0, chat_id |-> sc.other] }

\* rules[i] for the i of S, in the order of rules
Sublist(rules, S) ==
    [i \in 1..Cardinality(S) |->
        rules[CHOOSE x \in S : Cardinality({ y \in S : y <= x }) = i]]

\* the lists apply_rules is called with: some of the rules of __main__
RuleSubsets == { Sublist(StockRules, S) : S \in SUBSET (DOMAIN StockRules) \ {{}} }

InitWatermark ==
    /\ \E sc \in ChatScenarios :
         /\ handle = sc.handle
         /\ chat = sc.chat
         /\ CHATS = (ChatKey :> sc.desc)
         /\ c_args = sc
    /\ message = <<>> /\ chat_message_join = <<>>
    /\ NoCall
    /\ c_res = NotCalled
    /\ pc = "idle" /\ messages = <<>> /\ csv = NoFile /\ hist = NoHistory
    /\ NoProc

\* the Messages app stores a message newer than every message of the store
\* while no run is in progress
StoreNewer ==
    /\ pc = "idle" /\ hist.runs < MaxRuns /\ Len(message) < MaxStored
    /\ \E r \in NewMessages(c_args) :
         InsertRow(r.handle_id, r.is_from_me, r.text, LatestDate + 1, r.type, r.chat_id)
    /\ hist' = [hist EXCEPT !.stored = Len(message) + 1]
    /\ UNCHANGED <<handle, chat, CHATS, callVars, contactVars, pc, messages, csv, procVars>>

\* chat.apply_rules(*rules) with some of the rules of __main__
ApplyRuleSubset ==
    \E rules \in RuleSubsets :
        /\ pc = "loaded" /\ hist.rules = <<>>
        /\ messages' = apply_rules(rules, messages)
        /\ hist' = [hist EXCEPT !.rules = rules]
        /\ UNCHANGED <<storeVars, CHATS, callVars, contactVars, pc, csv, procVars>>

NextWatermark ==
    \/ StoreNewer
    \/ Construct
    \/ ApplyRuleSubset
    \/ SaveMessages
    \/ Exit

SpecWatermark == InitWatermark /\ [][NextWatermark]_vars

(***************************************************************************)
(* Claims about the watermark (SpecWatermark)                              *)
(***************************************************************************)
(* ---- C27 ---- *)
\* C27: whatever runs were made, each applying some of the rules of __main__,
\* against a store that only gained rows newer than every row it held, the
\* persisted table has non-decreasing timestamps and its last row holds the
\* greatest persisted timestamp.
C27_WatermarkIsMaximum ==
    csv.exists =>
        /\ TimeAscending(csv.rows)
        /\ \A k \in DOMAIN csv.rows : csv.rows[k].time <= csv.rows[Len(csv.rows)].time

\* a second run that applied two of the three rules has appended rows to the
\* rows the first run persisted
C27_Witness ==
    /\ pc = "saved" /\ hist.runs = 2 /\ Len(hist.rules) = 2
    /\ hist.prior.exists /\ hist.prior.rows /= <<>>
    /\ Len(csv.rows) > Len(hist.prior.rows)
    /\ csv.rows[1].time < csv.rows[Len(csv.rows)].time

(***************************************************************************)
(* create_faiss_index and split_texts (llm_lib.py)                         *)
(***************************************************************************)
\* " ".join(text.splitlines()): the line breaks inside a text become spaces,
\* one at the end disappears
RECURSIVE join_splitlines(_)
join_splitlines(text) ==
    IF text = <<>> THEN <<>>
    ELSE IF Head(text) = "\n"
         THEN IF Tail(text) = <<>> THEN <<>> ELSE <<" ">> \o join_splitlines(Tail(text))
         ELSE <<Head(text)>> \o join_splitlines(Tail(text))

\* messages["sender"] + ": " + messages["text"], without line breaks
Line(row) == row.sender \o <<":", " ">> \o join_splitlines(row.text)

\* split_texts(messages): the lines joined by "\n" and cut into chunks of at
\* most 1000 characters; a chunk is the sequence of the lines it holds, and
\* the tables of the model fit in one chunk.  No line, no chunk.
split_texts(df) ==
    IF df = <<>> THEN <<>> ELSE << [k \in DOMAIN df |-> Line(df[k])] >>

\* the file index.faiss of the data directory; an index is the sequence of
\* the chunks embedded in it
NoIndexFile == [exists |-> FALSE, texts |-> <<>>]
IndexFile(texts) == [exists |-> TRUE, texts |-> texts]

\* create_faiss_index(chat) of a chat whose messages are df and whose data
\* directory holds file: the index returned and the file afterwards.
\* FAISS.from_texts of no text is the library's business: it raises or it
\* makes an index without chunks (empty_raises).
create_faiss_index(df, file, empty_raises) ==
    LET texts == split_texts(df)
    IN  IF file.exists
        THEN [ok |-> TRUE, error |-> "",
              faiss_index |-> IF df /= <<>> THEN file.texts \o texts ELSE file.texts,
              file |-> file]
        ELSE IF texts = <<>> /\ empty_raises
        THEN [ok |-> FALSE, error |-> "IndexError", faiss_index |-> <<>>, file |-> file]
        ELSE [ok |-> TRUE, error |-> "", faiss_index |-> texts, file |-> IndexFile(texts)]

(***************************************************************************)
(* Specification SpecIndex: complete runs of the program on one            *)
(* conversation: Chat(chat_name), apply_rules, create_faiss_index,         *)
(* save_messages.  proc holds the index of the running process and the run *)
(* it was made in, disk the file index.faiss.                              *)
(***************************************************************************)
InitIndex ==
    /\ \E sc \in ChatScenarios :
         /\ handle = sc.handle
         /\ chat = sc.chat
         /\ CHATS = (ChatKey :> sc.desc)
         /\ c_args = sc
    /\ message = <<>> /\ chat_message_join = <<>>
    /\ NoCall
    /\ c_res = NotCalled
    /\ pc = "idle" /\ messages = <<>> /\ csv = NoFile /\ hist = NoHistory
    /\ proc = [run |-> 0, faiss_index |-> <<>>]
    /\ disk = NoIndexFile
    /\ conn = <<>> /\ gpt = <<>>

\* faiss_index = create_faiss_index(chat), after the rules were applied
CreateIndex ==
    \E empty_raises \in BOOLEAN :
        LET r == create_faiss_index(messages, disk, empty_raises)
        IN  /\ pc = "loaded" /\ hist.rules = StockRules /\ proc.run /= hist.runs
            /\ disk' = r.file
            /\ IF r.ok
               THEN /\ proc' = [run |-> hist.runs, faiss_index |-> r.faiss_index]
                    /\ UNCHANGED <<pc, ret>>
               ELSE /\ pc' = "failed" /\ ret' = Raise(r.error)
                    /\ UNCHANGED proc
            /\ UNCHANGED <<contactVars, storeVars, CHATS, call, unknown_addresses,
                           messages, csv, hist, conn, gpt>>

\* chat.save_messages(), after the index was made
SaveIndexed == proc.run = hist.runs /\ SaveMessages

NextIndex ==
    \/ StoreNewer
    \/ Construct
    \/ ApplyRules
    \/ CreateIndex
    \/ SaveIndexed
    \/ Exit

SpecIndex == InitIndex /\ [][NextIndex]_vars

(***************************************************************************)
(* Claims about the index (SpecIndex)                                      *)
(***************************************************************************)
(* ---- C30 ---- *)
\* the lines embedded in the index stored on disk, chunk after chunk
EmbeddedLines == Concat(disk.texts)

\* the lines of the rows of the persisted table
PersistedLines == [k \in DOMAIN csv.rows |-> Line(read_csv(csv.rows)[k])]

\* the number of times lines holds line
Occurrences(line, lines) == Cardinality({ j \in DOMAIN lines : lines[j] = line })

\* C30 as stated: after complete runs of the program the index stored on disk
\* embeds every message of the persisted table, those an incremental run added
\* to an index that existed included: every line is embedded at least as many
\* times as the table holds it.
C30_Original ==
    (pc = "saved" /\ csv.exists) =>
        \A k \in DOMAIN PersistedLines :
            Occurrences(PersistedLines[k], PersistedLines)
                <= Occurrences(PersistedLines[k], EmbeddedLines)

=============================================================================
